---- MODULE Spec2Model ----
(***************************************************************************)
(* State Engine of wip-ai-dungeon-mods: the per-turn association,          *)
(* scoring and selection pipeline over State-Engine entries, with the      *)
(* Deep-State and Director entry kinds.                                    *)
(*                                                                         *)
(* One turn is one run of the context modifier built by `mainModifier`.    *)
(* Its stages are modelled as actions over the shared context object; the  *)
(* loops of the stages advance one iteration per step.                     *)
(***************************************************************************)
EXTENDS Integers, Sequences, FiniteSets, Bags, TLC

VARIABLES
  worldEntries,      \* data.worldEntries: sequence of raw world-info records
  env,               \* the rest of the turn's input (texts, flags)
  actionCount,       \* data.actionCount
  engineVersion,     \* state.$$stateEngineVersion
  turnCache,         \* the "StateEngine.association" turn cache: turn -> snapshot
  stateDataCache,    \* state.$$stateDataCache
  director,          \* state.$$currentDirectorSection / $$currentDirectorSelection
  useAI,             \* data.useAI
  pc,                \* the stage of mainModifier about to run
  entriesMap,        \* ctx.entriesMap: ids in insertion order
  entries,           \* the StateEngineEntry instances, by id
  validationIssues,  \* ctx.validationIssues: ids of world entries with issues
  sortedStateMatchers, \* ctx.sortedStateMatchers: ids in processing order
  workingHistory,    \* ctx.workingHistory: history offsets in iteration order
  stateAssociations, \* ctx.stateAssociations: source -> sequence of ids
  usedTopics,        \* the UsedTopicsMap of associateState: depth -> topics
  cursor,            \* how many pairs of associationsHelper the running loop has taken
  scoresMap,         \* ctx.scoresMap: source -> (id -> score)
  winnersArr,        \* superHappyRouletteTime: <<source, contestants>> pairs
  sel,               \* superHappyRouletteTime: the locals of the winner loop
  call,              \* a call of a RelatableEntry method: receiver, arguments, result
  parser             \* the extractors: raw entries, memoize stores, parses made

vars == <<worldEntries, env, actionCount, engineVersion, turnCache, stateDataCache,
          director, useAI, pc, entriesMap, entries, validationIssues,
          sortedStateMatchers, workingHistory, stateAssociations, usedTopics,
          cursor, scoresMap, winnersArr, sel, call, parser>>

(* What the stages of a turn leave alone: the state of the libraries when  *)
(* they are exercised on their own.                                         *)
libraryVars == <<call, parser>>

----------------------------------------------------------------------------
(* Bounds of the model. *)

MaxEntries == 2     \* world-info entries in the scenario
EntryCount == 2     \* the `entryCount` configuration (history window depth)

(* Program constants. *)

STATE_ENGINE_VERSION == 5
MaxScore == 1000
DirectorHold == 12
DirectorWindow == 5

(* Entry ids count from one and sections from zero; these stand for `null`. *)
NoEntry == 0
NoSection == 0 - 1

Topics == {"t1", "t2", "t3"}
Words == {"w"} \cup Topics

----------------------------------------------------------------------------
(* Association sources.  A history source is its offset from the latest    *)
(* action; the other sources are named.                                    *)

H(d) == [kind |-> "history", depth |-> d]
Src(name) == [kind |-> name, depth |-> 0]

Implicit == Src("implicit")
PlayerMemory == Src("playerMemory")
AuthorsNote == Src("authorsNote")
FrontMemory == Src("frontMemory")
ImplicitRef == Src("implicitRef")

HistorySources == {H(d) : d \in 0..(EntryCount - 1)}
Sources == {Implicit, PlayerMemory, AuthorsNote, FrontMemory, ImplicitRef} \cup HistorySources

isForHistory(source) == source.kind = "history"

----------------------------------------------------------------------------
(* Sequence helpers. *)

Range(s) == {s[i] : i \in 1..Len(s)}

RECURSIVE SeqFilter(_, _)
SeqFilter(s, keep) ==
  IF s = <<>> THEN <<>>
  ELSE IF Head(s) \in keep THEN <<Head(s)>> \o SeqFilter(Tail(s), keep)
       ELSE SeqFilter(Tail(s), keep)

Reverse(s) == [i \in 1..Len(s) |-> s[Len(s) + 1 - i]]

IndexOf(s, x) == CHOOSE i \in 1..Len(s) : s[i] = x

Orderings(S) ==
  {p \in [1..Cardinality(S) -> S] : \A x \in S : \E i \in 1..Cardinality(S) : p[i] = x}

----------------------------------------------------------------------------
(* Matchers.  Keywords and relations are kept as sets of definitions; the  *)
(* checks of the program do not depend on their order.                     *)

Kw(type, value) == [type |-> type, exactMatch |-> FALSE, value |-> value]
Rel(type, topic) == [type |-> type, topic |-> topic]

isInclusiveKeyword(kw) == kw.type = "include"
isExclusiveKeyword(kw) == kw.type = "exclude"
isNegatedRelation(rel) == rel.type = "negated"
isInclusiveRelation(rel) == rel.type # "negated"

setsIntersect(left, right) ==
  IF left = {} \/ right = {} THEN FALSE ELSE left \cap right # {}

setIsSubsetOf(left, right) == left \subseteq right

(* RelatableEntry: the four topic sets and the two derived sets. *)
Relator(relations) ==
  LET of(type) == {r.topic : r \in {x \in relations : x.type = type}} IN
  [ allOf |-> of("allOf"), atLeastOne |-> of("atLeastOne"),
    immediate |-> of("immediate"), negated |-> of("negated"),
    topicsOfInterest |-> {r.topic : r \in relations},
    topicsForMatch |-> of("allOf") \cup of("atLeastOne") \cup of("immediate") ]

isInterestedIn(relator, topicSet) == setsIntersect(topicSet, relator.topicsOfInterest)
isMemberOf(relator, topicSet) == setsIntersect(topicSet, relator.topicsForMatch)

(* A failed check is `false` in the program; a successful one is a count. *)
Fail == -1

iterUsedTopics(usedTopicsMap, start, end) ==
  LET from == IF start > 0 THEN start ELSE 0 IN
  UNION {usedTopicsMap[i] : i \in (from..end) \cap DOMAIN usedTopicsMap}

(* `checkNegated` giving way to the relations that can match. *)
checkNegatedWhenAlone(relator, used) ==
  IF relator.negated = {} THEN TRUE
  ELSE relator.topicsForMatch # {} \/ ~setsIntersect(used, relator.negated)

checkNegated(relator, used) ==
  IF relator.negated = {} THEN TRUE ELSE ~setsIntersect(used, relator.negated)

checkAtLeastOne(relator, used) ==
  IF relator.atLeastOne = {} THEN 0
  ELSE IF used = {} THEN Fail
  ELSE LET matchCount == Cardinality(relator.atLeastOne \cap used) IN
       IF matchCount = 0 THEN Fail ELSE matchCount

checkAllOf(relator, used) ==
  IF relator.allOf = {} THEN 0
  ELSE IF used = {} THEN Fail
  ELSE IF ~setIsSubsetOf(relator.allOf, used) THEN Fail
  ELSE Cardinality(relator.allOf)

checkImmediate(relator, used) ==
  IF relator.immediate = {} THEN 0
  ELSE IF used = {} THEN Fail
  ELSE IF ~setIsSubsetOf(relator.immediate, used) THEN Fail
  ELSE Cardinality(relator.immediate)

(* `check` without its short circuit for a relator without relations. *)
checkWithoutShortCircuit(relator, usedTopicsMap, start, end) ==
  LET used == iterUsedTopics(usedTopicsMap, start, end)
      atLeastOneCount == checkAtLeastOne(relator, used)
      allOfCount == checkAllOf(relator, used)
      immediateCount == checkImmediate(relator, iterUsedTopics(usedTopicsMap, start, start))
      matchCount == atLeastOneCount + allOfCount + immediateCount
  IN IF ~checkNegated(relator, used) THEN Fail
     ELSE IF atLeastOneCount = Fail THEN Fail
     ELSE IF allOfCount = Fail THEN Fail
     ELSE IF immediateCount = Fail THEN Fail
     ELSE IF matchCount = 0 THEN Fail ELSE matchCount

(* `check` with the immediate relations looked up in the whole window. *)
checkImmediateInWindow(relator, usedTopicsMap, start, end) ==
  IF relator.topicsOfInterest = {} THEN 0
  ELSE
    LET used == iterUsedTopics(usedTopicsMap, start, end)
        atLeastOneCount == checkAtLeastOne(relator, used)
        allOfCount == checkAllOf(relator, used)
        immediateCount == checkImmediate(relator, used)
        matchCount == atLeastOneCount + allOfCount + immediateCount
    IN IF ~checkNegated(relator, used) THEN Fail
       ELSE IF atLeastOneCount = Fail THEN Fail
       ELSE IF allOfCount = Fail THEN Fail
       ELSE IF immediateCount = Fail THEN Fail
       ELSE IF matchCount = 0 THEN Fail ELSE matchCount

check(relator, usedTopicsMap, start, end) ==
  IF relator.topicsOfInterest = {} THEN 0
  ELSE
    LET used == iterUsedTopics(usedTopicsMap, start, end)
        atLeastOneCount == checkAtLeastOne(relator, used)
        allOfCount == checkAllOf(relator, used)
        immediateCount == checkImmediate(relator, iterUsedTopics(usedTopicsMap, start, start))
        matchCount == atLeastOneCount + allOfCount + immediateCount
    IN IF ~checkNegated(relator, used) THEN Fail
       ELSE IF atLeastOneCount = Fail THEN Fail
       ELSE IF allOfCount = Fail THEN Fail
       ELSE IF immediateCount = Fail THEN Fail
       ELSE IF matchCount = 0 THEN Fail ELSE matchCount

checkTopics(relator, used, includeImmediate) ==
  IF relator.topicsOfInterest = {} THEN 0
  ELSE IF used = {} THEN Fail
  ELSE
    LET atLeastOneCount == checkAtLeastOne(relator, used)
        allOfCount == checkAllOf(relator, used)
        immediateCount == checkImmediate(relator, used)
    IN IF ~checkNegated(relator, used) THEN Fail
       ELSE IF atLeastOneCount = Fail THEN Fail
       ELSE IF allOfCount = Fail THEN Fail
       ELSE IF ~includeImmediate THEN atLeastOneCount + allOfCount
       ELSE IF immediateCount = Fail THEN Fail
       ELSE atLeastOneCount + allOfCount + immediateCount

----------------------------------------------------------------------------
(* Entries.  A world-info record carries what the parser extracts from it; *)
(* an entry instance adds the per-turn fields of StateEngineEntry and of   *)
(* the kinds that extend it.                                               *)

(* The order in which the entry classes were registered by the modules.    *)
ClassOrder == <<"VanillaEntry", "Player", "NPC", "Scene", "Lore", "State", "Direction">>

NewEntry(id, info) ==
  [ id |-> id, kind |-> info.kind, topics |-> info.topics,
    keywords |-> info.keywords, relations |-> info.relations, text |-> info.text,
    relationCounts |-> [s \in Sources |-> 0],
    historyMatches |-> 0,
    hasMatchedStateMap |-> {} ]

relator(e) == Relator(e.relations)

hasInclusiveKeywords(e) == \E kw \in e.keywords : isInclusiveKeyword(kw)
hasInclusiveRelations(e) == \E rel \in e.relations : isInclusiveRelation(rel)
hasInclusiveMatchers(e) == hasInclusiveKeywords(e) \/ hasInclusiveRelations(e)
hasMatchers(e) == e.keywords # {} \/ e.relations # {}

(* `null` stands for implicitRef, playerMemory and history. *)
targetSources(kind) ==
  CASE kind \in {"Player", "NPC"} -> {"implicit", "history"}
    [] kind = "Scene" -> {"implicit"}
    [] kind = "Lore" -> {"playerMemory", "implicitRef", "history"}
    [] kind = "Direction" -> {"authorsNote", "history"}
    [] OTHER -> {"history"}

(* The issues an entry's validator reports. *)
validator(e) ==
  CASE e.kind \in {"Player", "NPC"} ->
         (IF e.topics = {} THEN {"must have at least one topic"} ELSE {})
         \cup (IF e.relations # {} THEN {"cannot have relation matchers"} ELSE {})
    [] e.kind = "Scene" ->
         (IF e.topics # {} THEN {"cannot be given a topic"} ELSE {})
         \cup (IF e.relations # {} \/ e.keywords # {} THEN {"cannot have any matchers"} ELSE {})
    [] e.kind = "State" ->
         (IF Cardinality(e.topics) > 1 THEN {"cannot have more than one topic"} ELSE {})
         \cup (IF e.keywords = {} /\ e.relations = {} THEN {"must have at least one matcher"} ELSE {})
    [] e.kind = "Direction" ->
         (IF Cardinality(e.topics) > 1 THEN {"can have, at most, one topic"} ELSE {})
    [] OTHER -> {}

(* The first topic of the entry; the catalogue gives such entries one topic. *)
mainTopic(e) == CHOOSE t \in e.topics : TRUE

addTopicAsKeyword(e) ==
  IF e.topics = {} THEN e
  ELSE IF \E kw \in e.keywords : kw.type = "include" /\ kw.value = mainTopic(e) THEN e
  ELSE [e EXCEPT !.keywords =
          @ \cup {[type |-> "include", exactMatch |-> TRUE, value |-> mainTopic(e)]}]

(* LoreEntry.modifier: the entries whose matchers this entry may copy. *)
duplicateEntries(e, allStates) ==
  { id \in DOMAIN allStates :
      /\ allStates[id].kind = e.kind
      /\ allStates[id].topics # {}
      /\ allStates[id].topics = e.topics
      /\ ~\E kw \in allStates[id].keywords : isExclusiveKeyword(kw)
      /\ ~\E rel \in allStates[id].relations : isNegatedRelation(rel)
      /\ allStates[id].keywords # {} \/ allStates[id].relations # {} }

(* A modifier that copies from one of the entries when there are several. *)
loreModifierFromAnyDonor(e, allStates) ==
  IF e.topics = {} \/ hasInclusiveMatchers(e) THEN e
  ELSE IF duplicateEntries(e, allStates) = {} THEN e
  ELSE LET chosen == allStates[CHOOSE id \in duplicateEntries(e, allStates) : TRUE]
       IN [e EXCEPT !.keywords = chosen.keywords, !.relations = chosen.relations]

loreModifier(e, allStates) ==
  IF e.topics = {} \/ hasInclusiveMatchers(e) THEN e
  ELSE IF Cardinality(duplicateEntries(e, allStates)) # 1 THEN e
  ELSE LET chosen == allStates[CHOOSE id \in duplicateEntries(e, allStates) : TRUE]
       IN [e EXCEPT !.keywords = chosen.keywords, !.relations = chosen.relations]

directionModifier(e, allStates) ==
  IF Cardinality(e.topics) # 1 \/ e.relations # {} THEN e
  ELSE IF \E id \in DOMAIN allStates :
            allStates[id].kind # e.kind /\ mainTopic(e) \in allStates[id].topics
       THEN [e EXCEPT !.relations = {Rel("allOf", mainTopic(e))}]
       ELSE e

modifier(e, allStates) ==
  CASE e.kind \in {"Player", "NPC"} -> addTopicAsKeyword(e)
    [] e.kind = "Lore" -> loreModifier(e, allStates)
    [] e.kind = "Direction" -> directionModifier(e, allStates)
    [] OTHER -> e

(* The copy of an entry that the modifiers are shown. *)
entryForModifier(e) ==
  [kind |-> e.kind, id |-> e.id, topics |-> e.topics,
   relations |-> e.relations, keywords |-> e.keywords]

(* A loop in which a modifier is shown the entries as they are by now. *)
RECURSIVE modifyStateEntriesLive(_, _, _)
modifyStateEntriesLive(order, ents, allStates) ==
  IF order = <<>> THEN ents
  ELSE LET live == [id \in DOMAIN allStates |-> entryForModifier(ents[id])] IN
       modifyStateEntriesLive(Tail(order),
                              [ents EXCEPT ![Head(order)] = modifier(@, live)], live)

(* modifyStateEntries: the entries of the table are modified one after the *)
(* other, in the order of the table, each against the same copies.          *)
RECURSIVE modifyStateEntries(_, _, _)
modifyStateEntries(order, ents, allStates) ==
  IF order = <<>> THEN ents
  ELSE modifyStateEntries(Tail(order),
                          [ents EXCEPT ![Head(order)] = modifier(@, allStates)], allStates)

----------------------------------------------------------------------------
(* Association.  An item is one pair yielded by associationsHelper: the    *)
(* matcher `m`, the source, and for implicitRef the referenced entry `ref`.*)

Item(m, source, ref) == [m |-> m, source |-> source, ref |-> ref]

isParamsTextable(item) == item.source.kind \in {"playerMemory", "implicitRef", "history"}

(* getText(params.entry): the words of the text the source is matched on. *)
textOf(item, ents, e) ==
  CASE item.source.kind = "playerMemory" -> e.playerMemory
    [] item.source.kind = "implicitRef" -> ents[item.ref].text
    [] item.source.kind = "history" -> e.history[item.source.depth + 1]
    [] OTHER -> {}

(* MatchableEntry: keyword matching on the words of a text. *)
include(e) == {kw \in e.keywords : isInclusiveKeyword(kw)}
exclude(e) == {kw \in e.keywords : isExclusiveKeyword(kw)}
hasExcludedWords(e, text) == \E kw \in exclude(e) : kw.value \in text
hasIncludedWords(e, text) == include(e) = {} \/ \E kw \in include(e) : kw.value \in text
uniqueOccurrencesIn(e, text) == Cardinality({kw \in include(e) : kw.value \in text})

checkKeywords(e, item, ents, ev) ==
  IF include(e) = {} /\ exclude(e) = {} THEN TRUE
  ELSE IF ~isParamsTextable(item) THEN FALSE
  ELSE IF textOf(item, ents, ev) = {} THEN FALSE
  ELSE IF hasExcludedWords(e, textOf(item, ents, ev)) THEN FALSE
  ELSE hasIncludedWords(e, textOf(item, ents, ev))

(* The window of history depths a kind's relation check reads for `depth`. *)
queryEnd(e, depth) ==
  CASE e.kind = "State" -> depth + 2
    [] e.kind = "Lore" /\ ~hasInclusiveKeywords(e) -> depth + 1
    [] OTHER -> EntryCount

(* checkRelations: `ok`, and the count stored in relationCounts (Fail: none). *)
RelResult(ok, count) == [ok |-> ok, count |-> count]

defaultCheckRelations(e, item, ents, ut) ==
  CASE item.source.kind = "playerMemory" -> RelResult(~hasInclusiveRelations(e), Fail)
    [] item.source.kind = "implicitRef" ->
         IF ~hasInclusiveMatchers(e) THEN RelResult(FALSE, Fail)
         ELSE IF hasInclusiveKeywords(e) /\ e.relations = {} THEN RelResult(TRUE, Fail)
         ELSE LET result == checkTopics(relator(e), ents[item.ref].topics, FALSE) IN
              IF result = Fail THEN RelResult(FALSE, Fail)
              ELSE IF result = 0 /\ ~hasInclusiveKeywords(e) THEN RelResult(FALSE, Fail)
              ELSE RelResult(TRUE, Fail)
    [] item.source.kind = "history" ->
         IF e.relations = {} THEN RelResult(TRUE, Fail)
         ELSE LET result == check(relator(e), ut, item.source.depth, EntryCount) IN
              IF result = Fail THEN RelResult(FALSE, Fail) ELSE RelResult(TRUE, result)
    [] OTHER -> RelResult(TRUE, Fail)

(* LoreEntry.checkRelations and StateEntry.checkRelations narrow the window. *)
narrowCheckRelations(e, item, ut) ==
  IF ~isForHistory(item.source) THEN RelResult(FALSE, Fail)
  ELSE IF e.relations = {} THEN RelResult(TRUE, Fail)
  ELSE LET result == check(relator(e), ut, item.source.depth, queryEnd(e, item.source.depth)) IN
       IF result = Fail THEN RelResult(FALSE, Fail) ELSE RelResult(TRUE, result)

checkRelations(e, item, ents, ut) ==
  CASE e.kind = "State" -> narrowCheckRelations(e, item, ut)
    [] e.kind = "Lore" /\ ~hasInclusiveKeywords(e) -> narrowCheckRelations(e, item, ut)
    [] OTHER -> defaultCheckRelations(e, item, ents, ut)

(* A record of the topics that is kept under the latest action only. *)
recordTopicUsageAtLatest(e, item, ut) ==
  IF e.topics = {} THEN ut
  ELSE IF ~isForHistory(item.source) THEN ut
  ELSE [ut EXCEPT ![0] = @ \cup e.topics]

recordTopicUsage(e, item, ut) ==
  IF e.topics = {} THEN ut
  ELSE IF ~isForHistory(item.source) THEN ut
  ELSE [ut EXCEPT ![item.source.depth] = @ \cup e.topics]

(* The outcome of one associator call: whether the entry associates, the   *)
(* entry as the call leaves it, the UsedTopicsMap as the call leaves it.   *)
Outcome(ok, e, ut) == [ok |-> ok, entry |-> e, usedTopics |-> ut]

withCount(e, item, rel) ==
  IF rel.count = Fail THEN e ELSE [e EXCEPT !.relationCounts[item.source] = rel.count]

(* A default associator that goes by the relations alone. *)
defaultAssociatorWithoutKeywords(e, item, ents, ev, ut) ==
  LET rel == checkRelations(e, item, ents, ut) IN
  IF ~isParamsTextable(item) THEN Outcome(FALSE, e, ut)
  ELSE IF item.source.kind = "playerMemory" /\ ~hasInclusiveKeywords(e) THEN Outcome(FALSE, e, ut)
  ELSE IF item.source.kind = "implicitRef" /\ ~hasInclusiveMatchers(e) THEN Outcome(FALSE, e, ut)
  ELSE IF ~rel.ok THEN Outcome(FALSE, e, ut)
  ELSE Outcome(TRUE, withCount(e, item, rel), recordTopicUsage(e, item, ut))

defaultAssociator(e, item, ents, ev, ut) ==
  LET rel == checkRelations(e, item, ents, ut) IN
  IF ~isParamsTextable(item) THEN Outcome(FALSE, e, ut)
  ELSE IF item.source.kind = "playerMemory" /\ ~hasInclusiveKeywords(e) THEN Outcome(FALSE, e, ut)
  ELSE IF item.source.kind = "implicitRef" /\ ~hasInclusiveMatchers(e) THEN Outcome(FALSE, e, ut)
  ELSE IF ~checkKeywords(e, item, ents, ev) THEN Outcome(FALSE, e, ut)
  ELSE IF ~rel.ok THEN Outcome(FALSE, e, ut)
  ELSE Outcome(TRUE, withCount(e, item, rel), recordTopicUsage(e, item, ut))

directionAssociator(e, item, ents, ev, ut, selection) ==
  LET rel == checkRelations(e, item, ents, ut) IN
  IF item.source.kind = "authorsNote" THEN Outcome(TRUE, e, ut)
  ELSE IF hasMatchers(e) THEN
    IF item.source.depth >= DirectorWindow THEN Outcome(FALSE, e, ut)
    ELSE IF ~checkKeywords(e, item, ents, ev) THEN Outcome(FALSE, e, ut)
    ELSE IF ~rel.ok THEN Outcome(FALSE, e, ut)
    ELSE Outcome(FALSE, [withCount(e, item, rel) EXCEPT !.historyMatches = @ + 1],
                 recordTopicUsage(e, item, ut))
  ELSE IF selection = e.id THEN Outcome(FALSE, e, recordTopicUsage(e, item, ut))
  ELSE Outcome(FALSE, e, ut)

(* Associators in which a Player entry goes by the default associator for  *)
(* every source.                                                            *)
associatorWithoutPlayerRule(e, item, ents, ev, ut, selection, roll) ==
  CASE e.kind = "NPC" /\ item.source = Implicit -> Outcome(roll, e, ut)
    [] e.kind = "Scene" -> Outcome(TRUE, e, ut)
    [] e.kind = "Direction" -> directionAssociator(e, item, ents, ev, ut, selection)
    [] OTHER -> defaultAssociator(e, item, ents, ev, ut)

(* `roll` is whether rollDice(1, 20) came up 20. *)
associator(e, item, ents, ev, ut, selection, roll) ==
  CASE e.kind = "Player" /\ item.source = Implicit /\ ~ev.multiplayer -> Outcome(TRUE, e, ut)
    [] e.kind = "NPC" /\ item.source = Implicit -> Outcome(roll, e, ut)
    [] e.kind = "Scene" -> Outcome(TRUE, e, ut)
    [] e.kind = "Direction" -> directionAssociator(e, item, ents, ev, ut, selection)
    [] OTHER -> defaultAssociator(e, item, ents, ev, ut)

----------------------------------------------------------------------------
(* The order stage. *)

countOfUniqueTopics(source, target) ==
  IF source.topics = {} THEN 0 ELSE Cardinality(source.topics \ target.topics)

stateSorter(a, b) ==
  IF isInterestedIn(relator(a), b.topics) THEN 1
  ELSE IF isInterestedIn(relator(b), a.topics) THEN -1
  ELSE IF Cardinality(relator(a).topicsOfInterest) # Cardinality(relator(b).topicsOfInterest)
    THEN Cardinality(relator(a).topicsOfInterest) - Cardinality(relator(b).topicsOfInterest)
  ELSE countOfUniqueTopics(a, b) - countOfUniqueTopics(b, a)

(* Array.prototype.sort on a short array: a stable insertion sort.  Each   *)
(* element moves left past the elements the comparator puts after it.      *)
RECURSIVE insertInto(_, _, _)
insertInto(sorted, x, ents) ==
  IF sorted = <<>> THEN <<x>>
  ELSE IF stateSorter(ents[sorted[Len(sorted)]], ents[x]) > 0
    THEN insertInto(SubSeq(sorted, 1, Len(sorted) - 1), x, ents) \o <<sorted[Len(sorted)]>>
    ELSE sorted \o <<x>>

RECURSIVE sortEntries(_, _)
sortEntries(ids, ents) ==
  IF ids = <<>> THEN <<>>
  ELSE insertInto(sortEntries(SubSeq(ids, 1, Len(ids) - 1), ents), ids[Len(ids)], ents)

(* A working history iterated from the latest action to the oldest. *)
workingHistoryLatestFirst(ev) == [i \in 1..Len(ev.history) |-> i - 1]

(* StateEngineApi.workingHistory: the latest `entryCount` actions, keyed by *)
(* offset, iterated from the oldest to the latest.                          *)
workingHistoryOf(ev) == [i \in 1..Len(ev.history) |-> Len(ev.history) - i]

----------------------------------------------------------------------------
(* associationsHelper: the pairs of matcher and source, in yield order.    *)

RECURSIVE Concat(_)
Concat(ss) == IF ss = <<>> THEN <<>> ELSE Head(ss) \o Concat(Tail(ss))

FlatMap(s, f(_)) == Concat([i \in 1..Len(s) |-> f(s[i])])

easyItems(sorted, ents, ev) ==
  LET perMatcher(m) ==
        (IF "implicit" \in targetSources(ents[m].kind)
           THEN <<Item(m, Implicit, 0)>> ELSE <<>>)
        \o (IF ev.playerMemory # {} /\ "playerMemory" \in targetSources(ents[m].kind)
           THEN <<Item(m, PlayerMemory, 0)>> ELSE <<>>)
        \o (IF ~ev.setAuthorsNote /\ "authorsNote" \in targetSources(ents[m].kind)
           THEN <<Item(m, AuthorsNote, 0)>> ELSE <<>>)
        \o (IF ~ev.frontMemory /\ "frontMemory" \in targetSources(ents[m].kind)
           THEN <<Item(m, FrontMemory, 0)>> ELSE <<>>)
  IN FlatMap(sorted, perMatcher)

implicitRefItems(sorted, ents, implicitIds) ==
  LET perIncluded(m) ==
        LET one(includedId) ==
              IF m = includedId THEN <<>> ELSE <<Item(m, ImplicitRef, includedId)>>
        IN FlatMap(implicitIds, one)
      perMatcher(m) ==
        IF "implicitRef" \in targetSources(ents[m].kind) THEN perIncluded(m) ELSE <<>>
  IN FlatMap(sorted, perMatcher)

historyItems(sorted, ents, wh) ==
  LET perOffset(offset) ==
        LET perMatcher(m) ==
              IF "history" \in targetSources(ents[m].kind)
                THEN <<Item(m, H(offset), 0)>> ELSE <<>>
        IN FlatMap(sorted, perMatcher)
  IN FlatMap(wh, perOffset)

(* The i-th pair the generator yields.  The implicit associations are read *)
(* when the second loop starts, after every pair of the first was handled. *)
associationsHelper(sorted, ents, ev, assocs, wh) ==
  easyItems(sorted, ents, ev)
    \o implicitRefItems(sorted, ents, assocs[Implicit])
    \o historyItems(sorted, ents, wh)

----------------------------------------------------------------------------
(* Rules and scores.  A score is kept in ten-thousandths, so that the      *)
(* scalars 0.5 and 1.1^n of the valuator stay integers.                    *)

(* 1.1^n in hundredths; the entries of the catalogue keep n below three.   *)
pow11(n) == CASE n = 0 -> 100 [] n = 1 -> 110 [] OTHER -> 121

(* (matched + bonus) * scalar of getKeywordStats, in hundredths.           *)
keywordPart(e, item, ents, ev) ==
  LET text == textOf(item, ents, ev)
      incKeywordCount == Cardinality(include(e))
      excKeywordCount == Cardinality(exclude(e))
      penalty == IF isParamsTextable(item) THEN 50 ELSE 100
  IN IF text = {} THEN penalty
     ELSE IF excKeywordCount = 0 /\ incKeywordCount = 0 THEN penalty
     ELSE IF incKeywordCount = 0 THEN pow11(excKeywordCount)
     ELSE IF uniqueOccurrencesIn(e, text) = 0 THEN penalty
     ELSE uniqueOccurrencesIn(e, text) * pow11(excKeywordCount)

(* (matched + bonus) * scalar of getRelationStats, in hundredths.          *)
relationsPart(e, item) ==
  (e.relationCounts[item.source] + 1) * pow11(Cardinality(relator(e).negated))

baseValuator(e, item, ents, ev, baseScalar) ==
  IF baseScalar = 0 THEN 0
  ELSE 10 * baseScalar * keywordPart(e, item, ents, ev) * relationsPart(e, item)

fixedScore(points) == points * 100 * 100

valuator(e, item, ents, ev) ==
  CASE e.kind = "Player" ->
         IF item.source = Implicit THEN fixedScore(50) ELSE baseValuator(e, item, ents, ev, 5)
    [] e.kind = "NPC" ->
         IF item.source = Implicit THEN fixedScore(25) ELSE baseValuator(e, item, ents, ev, 4)
    [] e.kind = "Scene" -> fixedScore(40)
    [] e.kind = "Lore" ->
         baseValuator(e, item, ents, ev, IF item.source \in e.hasMatchedStateMap THEN 2 ELSE 1)
    [] e.kind = "Direction" ->
         IF ~hasMatchers(e) THEN fixedScore(10) ELSE fixedScore(10 * e.historyMatches)
    [] OTHER -> baseValuator(e, item, ents, ev, 1)

(* A clamp that has no upper end. *)
clampScoreFromBelow(score) == IF score < 0 THEN 0 ELSE score

clampScore(score) ==
  IF score < 0 THEN 0
  ELSE IF score > fixedScore(MaxScore) THEN fixedScore(MaxScore) ELSE score

(* neighbors.after(): the associations of the history sources after `source`. *)
afterIds(source, assocs) ==
  IF ~isForHistory(source) THEN {}
  ELSE UNION {Range(assocs[H(i)]) : i \in 0..(source.depth - 1)}

(* preRules: every kind retains its association; a Lore entry also notes    *)
(* whether a later State entry refers to its topics.                        *)
preRules(e, source, ents, assocs) ==
  IF e.kind = "Lore" /\ e.topics # {}
       /\ \E id \in afterIds(source, assocs) :
            ents[id].kind = "State" /\ isMemberOf(relator(ents[id]), e.topics)
    THEN [ok |-> TRUE, entry |-> [e EXCEPT !.hasMatchedStateMap = @ \cup {source}]]
    ELSE [ok |-> TRUE, entry |-> e]

(* postRules: `selected` is the list of <<id, source>> pairs of the winners *)
(* so far; `dir` is the Director's state, as the call leaves it.            *)
PostResult(ok, dir) == [ok |-> ok, director |-> dir]

currentSection(count) == count \div DirectorHold

(* Post-rules in which a State entry is let through whatever was selected. *)
postRulesWithoutStateLimit(e, source, selected, ents, assocs, dir, count) ==
  CASE e.kind = "Player" ->
         IF source = Implicit THEN PostResult(TRUE, dir)
         ELSE IF ~isForHistory(source) THEN PostResult(FALSE, dir)
         ELSE PostResult(e.id \notin Range(assocs[Implicit]), dir)
    [] e.kind = "Direction" ->
         IF dir.selection # NoEntry /\ dir.section # NoSection
              /\ dir.section = currentSection(count)
           THEN PostResult(FALSE, dir)
           ELSE PostResult(TRUE, [section |-> currentSection(count), selection |-> e.id])
    [] OTHER -> PostResult(TRUE, dir)

postRules(e, source, selected, ents, assocs, dir, count) ==
  CASE e.kind = "Player" ->
         IF source = Implicit THEN PostResult(TRUE, dir)
         ELSE IF ~isForHistory(source) THEN PostResult(FALSE, dir)
         ELSE PostResult(e.id \notin Range(assocs[Implicit]), dir)
    [] e.kind = "State" ->
         PostResult(Cardinality({i \in 1..Len(selected) : ents[selected[i][1]].kind = "State"}) < 2,
                    dir)
    [] e.kind = "Direction" ->
         IF dir.selection # NoEntry /\ dir.section # NoSection
              /\ dir.section = currentSection(count)
           THEN PostResult(FALSE, dir)
           ELSE PostResult(TRUE, [section |-> currentSection(count), selection |-> e.id])
    [] OTHER -> PostResult(TRUE, dir)

----------------------------------------------------------------------------
(* The scenarios: what the parser extracts from a world-info record, and   *)
(* the rest of a turn's input.                                             *)

Info(kind, topics, keywords, relations, text) ==
  [kind |-> kind, topics |-> topics, keywords |-> keywords, relations |-> relations,
   text |-> text, parses |-> TRUE]

Catalogue ==
  { Info("Player", {"t1"}, {}, {}, {"w"}),
    Info("Player", {}, {}, {}, {"w"}),
    Info("NPC", {"t2"}, {}, {}, {}),
    Info("Direction", {}, {}, {}, {}),
    Info("Direction", {"t1"}, {Kw("include", "w")}, {}, {}),
    Info("Lore", {}, {}, {Rel("atLeastOne", "t1")}, {}),
    Info("Lore", {"t1"}, {}, {Rel("atLeastOne", "t2")}, {}),
    Info("Lore", {"t2"}, {}, {Rel("atLeastOne", "t3")}, {}),
    Info("Lore", {"t2"}, {}, {Rel("negated", "t1"), Rel("atLeastOne", "t3")}, {}),
    Info("Lore", {"t3"}, {Kw("include", "w")}, {}, {}),
    [Info("Lore", {}, {}, {}, {}) EXCEPT !.parses = FALSE] }

Env(history, playerMemory, setAuthorsNote, multiplayer) ==
  [history |-> history, playerMemory |-> playerMemory,
   setAuthorsNote |-> setAuthorsNote, frontMemory |-> FALSE, multiplayer |-> multiplayer]

(* history[d + 1] is the words of the action at offset d from the latest.  *)
Environments ==
  { Env([d \in 1..EntryCount |-> Words], {}, FALSE, FALSE),
    Env([d \in 1..EntryCount |-> IF d = 1 THEN {} ELSE Words], {"w"}, FALSE, TRUE),
    Env([d \in 1..EntryCount |-> IF d = 1 THEN Words ELSE {}], {"w"}, TRUE, FALSE) }

Scenarios == UNION {[1..n -> Catalogue] : n \in 1..MaxEntries}

EmptyAssociations == [s \in Sources |-> <<>>]
EmptyUsedTopics == [d \in 0..(EntryCount - 1) |-> {}]
EmptySelection ==
  [usedEntries |-> <<>>, theWinners |-> EmptyAssociations, resolved |-> <<>>, calls |-> {}]

(* No method of a relator has been called; no extractor has been loaded.   *)
NoCall == [fn |-> "none"]
NoParser == [fn |-> "none"]

(* A context that keeps the associations of the turn before. *)
ContextWithOldAssociations ==
  /\ entriesMap' = <<>>
  /\ entries' = <<>>
  /\ validationIssues' = {}
  /\ sortedStateMatchers' = <<>>
  /\ workingHistory' = <<>>
  /\ stateAssociations' = stateAssociations
  /\ usedTopics' = EmptyUsedTopics
  /\ cursor' = 0
  /\ scoresMap' = <<>>
  /\ winnersArr' = <<>>
  /\ sel' = EmptySelection

(* A context as the init stage creates it. *)
FreshContext ==
  /\ entriesMap' = <<>>
  /\ entries' = <<>>
  /\ validationIssues' = {}
  /\ sortedStateMatchers' = <<>>
  /\ workingHistory' = <<>>
  /\ stateAssociations' = EmptyAssociations
  /\ usedTopics' = EmptyUsedTopics
  /\ cursor' = 0
  /\ scoresMap' = <<>>
  /\ winnersArr' = <<>>
  /\ sel' = EmptySelection

(* The first turn of a fresh adventure over one of `scenarios`. *)
InitOver(scenarios) ==
  /\ worldEntries \in scenarios
  /\ env \in Environments
  /\ actionCount = 0
  /\ engineVersion = 0
  /\ turnCache = <<>>
  /\ stateDataCache = <<>>
  /\ director = [section |-> NoSection, selection |-> NoEntry]
  /\ useAI = TRUE
  /\ pc = "start"
  /\ entriesMap = <<>>
  /\ entries = <<>>
  /\ validationIssues = {}
  /\ sortedStateMatchers = <<>>
  /\ workingHistory = <<>>
  /\ stateAssociations = EmptyAssociations
  /\ usedTopics = EmptyUsedTopics
  /\ cursor = 0
  /\ scoresMap = <<>>
  /\ winnersArr = <<>>
  /\ sel = EmptySelection
  /\ call = NoCall
  /\ parser = NoParser

Init == InitOver(Scenarios)

----------------------------------------------------------------------------
(* The turn.  `mainModifier` runs the stages in order and returns as soon  *)
(* as one of them has cleared `useAI`.                                      *)

StageOrder ==
  << "init", "produceEntries", "validateStateEntries", "applyModifiers",
     "finalizeForProcessing", "associateState", "applyPreRules",
     "superHappyRouletteTime", "updateCaches" >>

stageAfter(stage) ==
  IF IndexOf(StageOrder, stage) = Len(StageOrder) THEN "done"
  ELSE StageOrder[IndexOf(StageOrder, stage) + 1]

(* A loop that runs every stage, whatever became of `useAI`. *)
afterStageUnguarded(stage, stillUseAI) == stageAfter(stage)

(* The loop of mainModifier once `stage` has returned with `stillUseAI`.   *)
afterStage(stage, stillUseAI) == IF ~stillUseAI THEN "done" ELSE stageAfter(stage)

contextVars ==
  <<entriesMap, entries, validationIssues, sortedStateMatchers, workingHistory,
    stateAssociations, usedTopics, cursor, scoresMap, winnersArr, sel>>

inputVars == <<worldEntries, env, actionCount>>

(* mainModifier up to its loop: the guard on useAI, then versionCheck.     *)
versionCheck ==
  IF engineVersion = STATE_ENGINE_VERSION
    THEN UNCHANGED <<stateDataCache, turnCache, engineVersion>>
    ELSE /\ stateDataCache' = <<>>
         /\ turnCache' = <<>>
         /\ engineVersion' = STATE_ENGINE_VERSION

StartTurn ==
  /\ pc = "start"
  /\ IF ~useAI
       THEN /\ pc' = "done"
            /\ UNCHANGED <<stateDataCache, turnCache, engineVersion>>
       ELSE /\ versionCheck
            /\ pc' = StageOrder[1]
  /\ UNCHANGED <<libraryVars, inputVars, director, useAI, contextVars>>

InitContext ==
  /\ pc = "init"
  /\ FreshContext
  /\ pc' = afterStage("init", useAI)
  /\ UNCHANGED <<libraryVars, inputVars, engineVersion, turnCache, stateDataCache, director, useAI>>

(* produceEntries: class by class, each class over the world-info in order. *)
idsOfKind(kind) == SeqFilter([i \in 1..Len(worldEntries) |-> i],
                             {i \in 1..Len(worldEntries) : worldEntries[i].kind = kind})

producedIds(kind) ==
  SeqFilter(idsOfKind(kind), {i \in 1..Len(worldEntries) : worldEntries[i].parses})

ProduceEntries ==
  /\ pc = "produceEntries"
  /\ entriesMap' = FlatMap(ClassOrder, producedIds)
  /\ entries' = [i \in 1..Len(worldEntries) |-> NewEntry(i, worldEntries[i])]
  /\ validationIssues' = {i \in 1..Len(worldEntries) : ~worldEntries[i].parses}
  /\ pc' = afterStage("produceEntries", useAI)
  /\ UNCHANGED <<libraryVars, inputVars, engineVersion, turnCache, stateDataCache, director, useAI,
                 sortedStateMatchers, workingHistory, stateAssociations, usedTopics,
                 cursor, scoresMap, winnersArr, sel>>

(* A validation stage that reports its issues and lets the turn go on. *)
ValidateWithoutBlocking ==
  /\ pc = "validateStateEntries"
  /\ LET invalid == {id \in Range(entriesMap) : validator(entries[id]) # {}}
     IN /\ entriesMap' = SeqFilter(entriesMap, Range(entriesMap) \ invalid)
        /\ validationIssues' = validationIssues \cup invalid
  /\ pc' = afterStage("validateStateEntries", useAI)
  /\ UNCHANGED <<libraryVars, inputVars, engineVersion, turnCache, stateDataCache, director, entries,
                 sortedStateMatchers, workingHistory, stateAssociations, usedTopics,
                 cursor, scoresMap, winnersArr, sel, useAI>>

(* validateStateEntries: entries with issues leave the table; any issue,   *)
(* of this stage or of the parsers, blocks the turn.                        *)
ValidateStateEntries ==
  /\ pc = "validateStateEntries"
  /\ LET invalid == {id \in Range(entriesMap) : validator(entries[id]) # {}}
     IN /\ entriesMap' = SeqFilter(entriesMap, Range(entriesMap) \ invalid)
        /\ validationIssues' = validationIssues \cup invalid
  /\ useAI' = IF validationIssues' = {} THEN useAI ELSE FALSE
  /\ pc' = afterStage("validateStateEntries", useAI')
  /\ UNCHANGED <<libraryVars, inputVars, engineVersion, turnCache, stateDataCache, director, entries,
                 sortedStateMatchers, workingHistory, stateAssociations, usedTopics,
                 cursor, scoresMap, winnersArr, sel>>

(* The modifier stage: every entry is modified against copies of the       *)
(* entries as they were when the stage began.                               *)
ApplyModifiers ==
  /\ pc = "applyModifiers"
  /\ LET allStates == [id \in Range(entriesMap) |-> entryForModifier(entries[id])]
     IN entries' = modifyStateEntries(entriesMap, entries, allStates)
  /\ pc' = afterStage("applyModifiers", useAI)
  /\ UNCHANGED <<libraryVars, inputVars, engineVersion, turnCache, stateDataCache, director, useAI,
                 entriesMap, validationIssues, sortedStateMatchers, workingHistory,
                 stateAssociations, usedTopics, cursor, scoresMap, winnersArr, sel>>

FinalizeForProcessing ==
  /\ pc = "finalizeForProcessing"
  /\ workingHistory' = workingHistoryOf(env)
  /\ sortedStateMatchers' = sortEntries(entriesMap, entries)
  /\ pc' = afterStage("finalizeForProcessing", useAI)
  /\ UNCHANGED <<libraryVars, inputVars, engineVersion, turnCache, stateDataCache, director, useAI,
                 entriesMap, entries, validationIssues, stateAssociations, usedTopics,
                 cursor, scoresMap, winnersArr, sel>>

(* associateState: one step is one pair taken from associationsHelper.     *)
helperItems(ents, assocs) ==
  associationsHelper(sortedStateMatchers, ents, env, assocs, workingHistory)

setAssociation(assocs, source, id) ==
  IF id \in Range(assocs[source]) THEN assocs
  ELSE [assocs EXCEPT ![source] = Append(@, id)]

AssociateState ==
  /\ pc = "associateState"
  /\ IF cursor >= Len(helperItems(entries, stateAssociations))
       THEN /\ pc' = afterStage("associateState", useAI)
            /\ cursor' = 0
            /\ UNCHANGED <<entries, usedTopics, stateAssociations>>
       ELSE LET item == helperItems(entries, stateAssociations)[cursor + 1]
                mayRoll == entries[item.m].kind = "NPC" /\ item.source = Implicit
            IN \E roll \in (IF mayRoll THEN BOOLEAN ELSE {FALSE}) :
                 LET out == associator(entries[item.m], item, entries, env, usedTopics,
                                       director.selection, roll)
                 IN /\ entries' = [entries EXCEPT ![item.m] = out.entry]
                    /\ usedTopics' = out.usedTopics
                    /\ stateAssociations' =
                         IF out.ok THEN setAssociation(stateAssociations, item.source, item.m)
                         ELSE stateAssociations
                    /\ cursor' = cursor + 1
                    /\ pc' = pc
  /\ UNCHANGED <<libraryVars, inputVars, engineVersion, turnCache, stateDataCache, director, useAI,
                 entriesMap, validationIssues, sortedStateMatchers, workingHistory,
                 scoresMap, winnersArr, sel>>

(* A verdict that, when false, takes the entry out of every source. *)
applyVerdictToEntry(assocs, item, ok) ==
  IF ok THEN assocs
  ELSE [s \in DOMAIN assocs |-> SeqFilter(assocs[s], Range(assocs[s]) \ {item.m})]

(* What applyPreRules does with the result of a preRules call for a pair:  *)
(* `if (!result) theMap.delete(matcher.entryId)`.                           *)
applyVerdict(assocs, item, ok) ==
  IF ok THEN assocs
  ELSE [assocs EXCEPT ![item.source] = SeqFilter(@, Range(@) \ {item.m})]

(* applyPreRules: the loop over the pairs, from the i-th on; `calls` are   *)
(* the pairs preRules was called for, in the order of the calls.            *)
RECURSIVE preRulesLoop(_, _, _)
preRulesLoop(i, ents, assocs) ==
  IF i > Len(helperItems(ents, assocs))
    THEN [entries |-> ents, associations |-> assocs, calls |-> <<>>]
  ELSE LET item == helperItems(ents, assocs)[i] IN
       IF item.m \notin Range(assocs[item.source]) THEN preRulesLoop(i + 1, ents, assocs)
       ELSE LET result == preRules(ents[item.m], item.source, ents, assocs)
                rest == preRulesLoop(i + 1, [ents EXCEPT ![item.m] = result.entry],
                                     applyVerdict(assocs, item, result.ok))
            IN [rest EXCEPT !.calls = <<item>> \o @]

ApplyPreRules ==
  /\ pc = "applyPreRules"
  /\ entries' = preRulesLoop(1, entries, stateAssociations).entries
  /\ stateAssociations' = preRulesLoop(1, entries, stateAssociations).associations
  /\ pc' = afterStage("applyPreRules", useAI)
  /\ UNCHANGED <<libraryVars, inputVars, engineVersion, turnCache, stateDataCache, director, useAI,
                 entriesMap, validationIssues, sortedStateMatchers, workingHistory,
                 usedTopics, cursor, scoresMap, winnersArr, sel>>

----------------------------------------------------------------------------
(* superHappyRouletteTime. *)

(* The pairs whose matcher is associated with the pair's source. *)
associatedItems(ents, assocs) ==
  SeqFilter(helperItems(ents, assocs),
            {item \in Range(helperItems(ents, assocs)) : item.m \in Range(assocs[item.source])})

(* groupBy: the keys in the order they are first seen. *)
RECURSIVE firstSeen(_, _)
firstSeen(items, seen) ==
  IF items = <<>> THEN <<>>
  ELSE IF Head(items).source \in seen THEN firstSeen(Tail(items), seen)
  ELSE <<Head(items).source>> \o firstSeen(Tail(items), seen \cup {Head(items).source})

groupBy(items) ==
  [g \in 1..Len(firstSeen(items, {})) |->
     [source |-> firstSeen(items, {})[g],
      group |-> SeqFilter(items, {item \in Range(items) :
                                    item.source = firstSeen(items, {})[g]})]]

(* The roulette of one group: its matchers with their clamped scores, the  *)
(* zero scores left out.                                                    *)
scoredItems(group, ents) ==
  [i \in 1..Len(group) |->
     [id |-> group[i].m, score |-> clampScore(valuator(ents[group[i].m], group[i], ents, env))]]

(* `if (score === 0) continue; roulette.push(score, matcher)`. *)
pushed(scored) == SeqFilter(scored, {c \in Range(scored) : c.score # 0})

rouletteOf(group, ents) == pushed(scoredItems(group, ents))

(* Roulette.pickAndPop: one of the pairs left on the wheel is drawn, with a *)
(* chance in proportion to its weight, and taken off the wheel.  The weights *)
(* being positive, every pair left has a chance.                             *)
pickAndPop(roulette) ==
  {[picked |-> roulette[i],
    rest |-> [k \in 1..(Len(roulette) - 1) |-> IF k < i THEN roulette[k] ELSE roulette[k + 1]]] :
     i \in 1..Len(roulette)}

(* spinToWin: draws until the wheel is empty. *)
RECURSIVE spinToWin(_)
spinToWin(roulette) ==
  IF roulette = <<>> THEN {<<>>}
  ELSE UNION {{<<draw.picked>> \o rest : rest \in spinToWin(draw.rest)} :
                draw \in pickAndPop(roulette)}

RECURSIVE allSpins(_, _)
allSpins(groups, ents) ==
  IF groups = <<>> THEN {<<>>}
  ELSE { <<[source |-> Head(groups).source, contestants |-> drawn]>> \o rest :
           drawn \in spinToWin(rouletteOf(Head(groups).group, ents)),
           rest \in allSpins(Tail(groups), ents) }

(* new Map(kvps): the score of an id is the one of its last pair. *)
scoresOf(contestants) ==
  [id \in {contestants[i].id : i \in 1..Len(contestants)} |->
     contestants[CHOOSE i \in 1..Len(contestants) :
                   /\ contestants[i].id = id
                   /\ \A j \in (i + 1)..Len(contestants) : contestants[j].id # id].score]

(* The winner loop over one source's contestants, from the i-th on.  `st`  *)
(* carries the locals of the loop: usedEntries, usedTypes, the winners of  *)
(* this source, the Director's state and the postRules calls made.          *)
usedEntryIds(usedEntries) == {usedEntries[i][1] : i \in 1..Len(usedEntries)}

(* The call of postRules for the i-th contestant, and the locals once the  *)
(* call was made and once the contestant has won.                           *)
rulesFor(source, contestants, i, st) ==
  postRules(entries[contestants[i].id], source, st.usedEntries, entries,
            stateAssociations, st.director, actionCount)

afterCall(source, contestants, i, st) ==
  [st EXCEPT !.calls = @ \cup {[id |-> contestants[i].id, source |-> source,
                                 selected |-> st.usedEntries]}]

afterWin(source, contestants, i, st) ==
  [afterCall(source, contestants, i, st) EXCEPT
     !.usedEntries = Append(@, <<contestants[i].id, source>>),
     !.usedTypes = @ \cup {entries[contestants[i].id].kind},
     !.winners = Append(@, contestants[i].id),
     !.director = rulesFor(source, contestants, i, st).director]

(* A winner loop that goes on after a winner, whatever the source. *)
RECURSIVE contestLoopWithoutBreak(_, _, _, _)
contestLoopWithoutBreak(source, contestants, i, st) ==
  IF i > Len(contestants) THEN st
  ELSE IF contestants[i].id \in usedEntryIds(st.usedEntries)
    THEN contestLoopWithoutBreak(source, contestants, i + 1, st)
  ELSE IF source = Implicit /\ entries[contestants[i].id].kind \in st.usedTypes
    THEN contestLoopWithoutBreak(source, contestants, i + 1, st)
  ELSE IF ~rulesFor(source, contestants, i, st).ok
    THEN contestLoopWithoutBreak(source, contestants, i + 1, afterCall(source, contestants, i, st))
  ELSE contestLoopWithoutBreak(source, contestants, i + 1, afterWin(source, contestants, i, st))

(* A winner loop that keeps no record of the types used. *)
RECURSIVE contestLoopWithoutTypes(_, _, _, _)
contestLoopWithoutTypes(source, contestants, i, st) ==
  IF i > Len(contestants) THEN st
  ELSE IF contestants[i].id \in usedEntryIds(st.usedEntries)
    THEN contestLoopWithoutTypes(source, contestants, i + 1, st)
  ELSE IF ~rulesFor(source, contestants, i, st).ok
    THEN contestLoopWithoutTypes(source, contestants, i + 1, afterCall(source, contestants, i, st))
  ELSE IF source = Implicit
    THEN contestLoopWithoutTypes(source, contestants, i + 1, afterWin(source, contestants, i, st))
  ELSE afterWin(source, contestants, i, st)

(* A winner loop that keeps no record of the entries used. *)
RECURSIVE contestLoopWithoutIds(_, _, _, _)
contestLoopWithoutIds(source, contestants, i, st) ==
  IF i > Len(contestants) THEN st
  ELSE IF source = Implicit /\ entries[contestants[i].id].kind \in st.usedTypes
    THEN contestLoopWithoutIds(source, contestants, i + 1, st)
  ELSE IF ~rulesFor(source, contestants, i, st).ok
    THEN contestLoopWithoutIds(source, contestants, i + 1, afterCall(source, contestants, i, st))
  ELSE IF source = Implicit
    THEN contestLoopWithoutIds(source, contestants, i + 1, afterWin(source, contestants, i, st))
  ELSE afterWin(source, contestants, i, st)

RECURSIVE contestLoop(_, _, _, _)
contestLoop(source, contestants, i, st) ==
  IF i > Len(contestants) THEN st
  ELSE IF contestants[i].id \in usedEntryIds(st.usedEntries)
    THEN contestLoop(source, contestants, i + 1, st)
  ELSE IF source = Implicit /\ entries[contestants[i].id].kind \in st.usedTypes
    THEN contestLoop(source, contestants, i + 1, st)
  ELSE IF ~rulesFor(source, contestants, i, st).ok
    THEN contestLoop(source, contestants, i + 1, afterCall(source, contestants, i, st))
  ELSE IF source = Implicit
    THEN contestLoop(source, contestants, i + 1, afterWin(source, contestants, i, st))
  ELSE afterWin(source, contestants, i, st)


(* The first half of the stage: the groups are valued and drawn, and the   *)
(* scores are published.                                                    *)
SpinTheWheels ==
  /\ pc = "superHappyRouletteTime"
  /\ cursor = 0
  /\ winnersArr' \in allSpins(groupBy(associatedItems(entries, stateAssociations)), entries)
  /\ scoresMap' = [g \in 1..Len(winnersArr') |->
                     [source |-> winnersArr'[g].source,
                      scores |-> scoresOf(winnersArr'[g].contestants)]]
  /\ sel' = EmptySelection
  /\ cursor' = 1
  /\ UNCHANGED <<libraryVars, inputVars, engineVersion, turnCache, stateDataCache, director, useAI, pc,
                 entriesMap, entries, validationIssues, sortedStateMatchers,
                 workingHistory, stateAssociations, usedTopics>>

(* The second half: one step resolves one source, the groups being taken   *)
(* in reverse; past the last group the winners replace the associations.    *)
PickWinners ==
  /\ pc = "superHappyRouletteTime"
  /\ cursor >= 1
  /\ IF cursor > Len(winnersArr)
       THEN /\ stateAssociations' = sel.theWinners
            /\ pc' = afterStage("superHappyRouletteTime", useAI)
            /\ cursor' = 0
            /\ UNCHANGED <<sel, director>>
       ELSE LET round == Reverse(winnersArr)[cursor]
                done == contestLoop(round.source, round.contestants, 1,
                                    [usedEntries |-> sel.usedEntries, usedTypes |-> {},
                                     winners |-> <<>>, director |-> director, calls |-> {}])
            IN /\ sel' = [usedEntries |-> done.usedEntries,
                          theWinners |-> [sel.theWinners EXCEPT ![round.source] = done.winners],
                          resolved |-> Append(sel.resolved, round.source),
                          calls |-> done.calls]
               /\ director' = done.director
               /\ cursor' = cursor + 1
               /\ UNCHANGED <<stateAssociations, pc>>
  /\ UNCHANGED <<libraryVars, inputVars, engineVersion, turnCache, stateDataCache, useAI, entriesMap,
                 entries, validationIssues, sortedStateMatchers, workingHistory,
                 usedTopics, scoresMap, winnersArr>>

----------------------------------------------------------------------------
(* updateCaches. *)

toJSON(e) ==
  [type |-> e.kind, entryId |-> e.id, topics |-> e.topics,
   relations |-> e.relations, keywords |-> e.keywords]

(* A snapshot that files every history item under every depth. *)
newCacheDataAcrossDepths(assocs) ==
  [ forContextMemory |->
      Range(assocs[Implicit]) \cup Range(assocs[ImplicitRef]) \cup Range(assocs[PlayerMemory]),
    forFrontMemory |-> assocs[FrontMemory],
    forAuthorsNote |-> assocs[AuthorsNote],
    forHistory |-> [d \in 0..(EntryCount - 1) |->
                      Concat([k \in 1..EntryCount |-> assocs[H(k - 1)]])] ]

newCacheData(assocs) ==
  [ forContextMemory |->
      Range(assocs[Implicit]) \cup Range(assocs[ImplicitRef]) \cup Range(assocs[PlayerMemory]),
    forFrontMemory |-> assocs[FrontMemory],
    forAuthorsNote |-> assocs[AuthorsNote],
    forHistory |-> [d \in 0..(EntryCount - 1) |-> assocs[H(d)]] ]

(* theCache.commit(): the storage becomes the snapshot of the current turn. *)
commit(cache, turn, storage) ==
  SeqFilter(cache, {c \in Range(cache) : c.turn # turn})
    \o <<[turn |-> turn, storage |-> storage]>>

UpdateCaches ==
  /\ pc = "updateCaches"
  /\ turnCache' = commit(turnCache, actionCount, newCacheData(stateAssociations))
  /\ stateDataCache' = [i \in 1..Len(entriesMap) |-> toJSON(entries[entriesMap[i]])]
  /\ pc' = afterStage("updateCaches", useAI)
  /\ UNCHANGED <<libraryVars, inputVars, engineVersion, director, useAI, contextVars>>

Next ==
  \/ StartTurn
  \/ InitContext
  \/ ProduceEntries
  \/ ValidateStateEntries
  \/ ApplyModifiers
  \/ FinalizeForProcessing
  \/ AssociateState
  \/ ApplyPreRules
  \/ SpinTheWheels
  \/ PickWinners
  \/ UpdateCaches

Spec == Init /\ [][Next]_vars

(* The same turn over scenarios of Lore entries, which relate to each      *)
(* other's topics.                                                          *)
OrderEntries == 3

LoreScenarios ==
  [1..OrderEntries -> {info \in Catalogue : info.kind = "Lore" /\ info.parses}]

InitLore == InitOver(LoreScenarios)

SpecLore == InitLore /\ [][Next]_vars

(* A run of turns over a single world-info record: between two turns the   *)
(* adventure moves on by one action, and the player may rewrite the record. *)
MaxTurns == 3

NextTurn ==
  /\ pc = "done"
  /\ actionCount + 1 < MaxTurns
  /\ actionCount' = actionCount + 1
  /\ \/ worldEntries' = worldEntries
     \/ \E i \in 1..Len(worldEntries), info \in Catalogue :
          worldEntries' = [worldEntries EXCEPT ![i] = info]
  /\ useAI' = TRUE
  /\ pc' = "start"
  /\ UNCHANGED <<libraryVars, env, engineVersion, turnCache, stateDataCache, director,
                 contextVars>>

(* The script is replaced by one of another engine version: the version    *)
(* stored with the adventure is no longer the script's.                     *)
UpgradeScript ==
  /\ pc = "done"
  /\ engineVersion = STATE_ENGINE_VERSION
  /\ engineVersion' = STATE_ENGINE_VERSION - 1
  /\ UNCHANGED <<libraryVars, inputVars, turnCache, stateDataCache, director, useAI, pc, contextVars>>

InitTurns == InitOver([1..1 -> Catalogue])

NextTurns == Next \/ NextTurn \/ UpgradeScript

SpecTurns == InitTurns /\ [][NextTurns]_vars

----------------------------------------------------------------------------
(* Properties. *)

(* Whether the turn over the current world-info is blocked: a record does  *)
(* not parse, or the entry made of it has validation issues.                *)
turnIsBlocked ==
  \E i \in 1..Len(worldEntries) :
    ~worldEntries[i].parses \/ validator(NewEntry(i, worldEntries[i])) # {}

latestSnapshot(cache) == cache[Len(cache)]

(* C1 as stated: no step of a blocked turn touches the turn cache or the   *)
(* serialized entry cache.                                                  *)
C1_BlockedTurnLeavesCaches ==
  [][turnIsBlocked => (turnCache' = turnCache /\ stateDataCache' = stateDataCache)]_vars

(* C1, amended: no step of a blocked turn writes to the turn cache or to   *)
(* the serialized entry cache; all such a turn may do to them is to clear  *)
(* both, at its start, when the engine version stored with the adventure   *)
(* is not the script's.  Short of that, the snapshot of the last unblocked *)
(* turn stays the latest.                                                   *)
C1_BlockedTurnWritesNoCache ==
  [][turnIsBlocked =>
       \/ turnCache' = turnCache /\ stateDataCache' = stateDataCache
       \/ /\ pc = "start" /\ engineVersion # STATE_ENGINE_VERSION
          /\ turnCache' = <<>> /\ stateDataCache' = <<>>]_vars

(* A blocked turn has ended and the snapshot of an earlier turn is there.  *)
C1_Witness ==
  /\ pc = "done" /\ ~useAI /\ turnIsBlocked
  /\ turnCache # <<>>
  /\ latestSnapshot(turnCache).turn < actionCount
  /\ stateDataCache # <<>>

(* C2: once the validation stage has blocked the turn, no later stage runs *)
(* in it: the turn is over, nothing has been sorted, associated, scored or *)
(* selected, and every source's association set is empty.                   *)
C2_BlockedTurnStops ==
  ~useAI =>
    /\ pc = "done"
    /\ sortedStateMatchers = <<>>
    /\ \A source \in Sources : stateAssociations[source] = <<>>
    /\ winnersArr = <<>>
    /\ sel = EmptySelection

(* The turn was blocked by one entry while another one was valid. *)
C2_Witness ==
  /\ ~useAI /\ pc = "done"
  /\ validationIssues # {}
  /\ entriesMap # <<>>

(* The source a step of the winner loop is about to resolve, if any. *)
resolving == pc = "superHappyRouletteTime" /\ cursor >= 1 /\ cursor <= Len(winnersArr)
roundNow == Reverse(winnersArr)[cursor]

(* Whether the i-th contestant of the round is free to win: it was not     *)
(* used by a source resolved before, and its postRules accepts.             *)
acceptable(i) ==
  /\ roundNow.contestants[i].id \notin usedEntryIds(sel.usedEntries)
  /\ postRules(entries[roundNow.contestants[i].id], roundNow.source, sel.usedEntries,
               entries, stateAssociations, director, actionCount).ok

(* C4: a source other than implicit gets at most one winner: the first of  *)
(* its contestants, in the order drawn, that no earlier source has used    *)
(* and that its postRules accepts; and none when there is no such one.     *)
C4_FirstAcceptedWins ==
  [][(resolving /\ roundNow.source # Implicit) =>
       LET n == Len(roundNow.contestants)
           winners == sel'.theWinners[roundNow.source]
       IN IF \E i \in 1..n : acceptable(i)
            THEN winners = <<roundNow.contestants[
                               CHOOSE i \in 1..n :
                                 acceptable(i) /\ \A j \in 1..(i - 1) : ~acceptable(j)].id>>
            ELSE winners = <<>>]_vars

(* A source other than implicit was won by a contestant that was not the   *)
(* first drawn, and another acceptable contestant came after it.            *)
C4_Witness ==
  \E g \in 1..Len(winnersArr) :
    LET c == winnersArr[g].contestants
        winners == sel.theWinners[winnersArr[g].source]
    IN /\ winnersArr[g].source # Implicit
       /\ winnersArr[g].source \in Range(sel.resolved)
       /\ Len(c) >= 2
       /\ Len(winners) = 1
       /\ winners[1] # c[1].id

(* C5: among the winners of the implicit source, no two are of one kind.   *)
C5_OneImplicitPerKind ==
  \A i, j \in 1..Len(sel.theWinners[Implicit]) :
    i # j => entries[sel.theWinners[Implicit][i]].kind # entries[sel.theWinners[Implicit][j]].kind

(* Two entries of one kind contested the implicit source and one has won.  *)
C5_Witness ==
  /\ Implicit \in Range(sel.resolved)
  /\ Len(sel.theWinners[Implicit]) = 1
  /\ \E g \in 1..Len(winnersArr) :
       /\ winnersArr[g].source = Implicit
       /\ Len(winnersArr[g].contestants) = 2
       /\ entries[winnersArr[g].contestants[1].id].kind
            = entries[winnersArr[g].contestants[2].id].kind

(* C6: no entry is the winner of more than one source in a turn. *)
C6_OneSourcePerEntry ==
  \A s1, s2 \in Sources :
    s1 # s2 => Range(sel.theWinners[s1]) \cap Range(sel.theWinners[s2]) = {}

(* An entry that has won one source was a contestant for another source,   *)
(* which has been resolved since.                                           *)
C6_Witness ==
  \E g \in 1..Len(winnersArr), k \in 1..Len(sel.usedEntries) :
    /\ winnersArr[g].source # sel.usedEntries[k][2]
    /\ winnersArr[g].source \in Range(sel.resolved)
    /\ sel.usedEntries[k][1] \in {winnersArr[g].contestants[i].id :
                                    i \in 1..Len(winnersArr[g].contestants)}
    /\ sel.usedEntries[k][2] # Implicit

(* The documented order of resolution: the history from the latest action  *)
(* back, then implicitRef, frontMemory, authorsNote, playerMemory, implicit. *)
rankOf(source) ==
  CASE isForHistory(source) -> source.depth
    [] source = ImplicitRef -> EntryCount
    [] source = FrontMemory -> EntryCount + 1
    [] source = AuthorsNote -> EntryCount + 2
    [] source = PlayerMemory -> EntryCount + 3
    [] OTHER -> EntryCount + 4

(* C3: the sources are resolved in the documented order, whatever the      *)
(* entries and their target sources: a source resolved earlier in the turn *)
(* is one that comes earlier in that order.                                 *)
C3_FixedOrder ==
  \A i, j \in 1..Len(sel.resolved) :
    i < j => rankOf(sel.resolved[i]) < rankOf(sel.resolved[j])

(* C7: what selected() yields to the postRules of a contestant for source  *)
(* S are winners of sources that come before S in the documented order.    *)
C7_SelectedIsEarlier ==
  \A made \in sel.calls :
    \A k \in 1..Len(made.selected) : rankOf(made.selected[k][2]) < rankOf(made.source)

(* C8: in the order the order stage puts the entries in, an entry whose    *)
(* relations refer to a topic of another entry comes after that entry.      *)
C8_ReferencedFirst ==
  \A i, j \in 1..Len(sortedStateMatchers) :
    (i # j /\ isInterestedIn(relator(entries[sortedStateMatchers[i]]),
                             entries[sortedStateMatchers[j]].topics))
      => j < i

(* C9: once associateState is over, an entry with a negated relation on a  *)
(* topic is not associated with a history depth when that topic is in the  *)
(* UsedTopicsMap at a depth of the window its relation check reads.         *)
C9_NegatedKeepsOut ==
  pc = "applyPreRules" =>
    \A d \in 0..(EntryCount - 1) :
      \A id \in Range(stateAssociations[H(d)]) :
        relator(entries[id]).negated
          \cap iterUsedTopics(usedTopics, d, queryEnd(entries[id], d)) = {}

(* C10 as stated: a topic in the UsedTopicsMap at a depth is a topic of an *)
(* entry associated with that depth.                                        *)
C10_TopicsOfAssociated ==
  pc \in {"associateState", "applyPreRules"} =>
    \A d \in 0..(EntryCount - 1) : \A t \in usedTopics[d] :
      \E id \in Range(stateAssociations[H(d)]) : t \in entries[id].topics

(* A Direction entry brings its topics to a depth without being associated *)
(* with it: with matchers, when they match the action within the window;   *)
(* without, when it is the Director's current selection.                    *)
directionRecordsAt(e, d) ==
  /\ e.kind = "Direction"
  /\ IF hasMatchers(e)
       THEN d < DirectorWindow /\ checkKeywords(e, Item(e.id, H(d), 0), entries, env)
       ELSE director.selection = e.id

(* C10, amended: a topic in the UsedTopicsMap at a depth is a topic of an  *)
(* entry associated with that depth, or of a Direction entry, which brings *)
(* its topics in but is never associated with the history.                  *)
C10_TopicsOfRecorders ==
  pc \in {"associateState", "applyPreRules"} =>
    \A d \in 0..(EntryCount - 1) : \A t \in usedTopics[d] :
      \E id \in Range(entriesMap) :
        /\ t \in entries[id].topics
        /\ id \in Range(stateAssociations[H(d)]) \/ directionRecordsAt(entries[id], d)

(* Both cases in one turn: a depth with the topic of an associated entry,  *)
(* and a depth with the topic of a Direction entry alone.                   *)
C10_Witness ==
  /\ pc = "applyPreRules"
  /\ \E d \in 0..(EntryCount - 1) : \E t \in usedTopics[d] :
       \E id \in Range(stateAssociations[H(d)]) : t \in entries[id].topics
  /\ \E d \in 0..(EntryCount - 1) : \E t \in usedTopics[d] :
       \A id \in Range(stateAssociations[H(d)]) : t \notin entries[id].topics

----------------------------------------------------------------------------
(* RelatableEntry on its own: one call of `check` or of `checkTopics` on a *)
(* relator built from any relations over a few topics.                      *)

RelTopics == {"t1", "t2"}
RelationTypes == {"allOf", "atLeastOne", "immediate", "negated"}
RelationDefs == {Rel(type, topic) : type \in RelationTypes, topic \in RelTopics}

UsedTopicsMaps == [0..(EntryCount - 1) -> SUBSET RelTopics]

CheckCalls ==
  [ fn : {"check"}, relations : SUBSET RelationDefs, usedTopicsMap : UsedTopicsMaps,
    start : (0 - 1)..(EntryCount - 1), end : 0..EntryCount,
    done : {FALSE}, result : {0} ]

CheckTopicsCalls ==
  [ fn : {"checkTopics"}, relations : SUBSET RelationDefs, usedTopics : SUBSET RelTopics,
    includeImmediate : BOOLEAN, done : {FALSE}, result : {0} ]

turnVars ==
  <<inputVars, engineVersion, turnCache, stateDataCache, director, useAI, pc, contextVars>>

(* No turn is running and none has run. *)
NoTurn ==
  /\ worldEntries = <<>>
  /\ env = Env(<<>>, {}, FALSE, FALSE)
  /\ actionCount = 0
  /\ engineVersion = 0
  /\ turnCache = <<>>
  /\ stateDataCache = <<>>
  /\ director = [section |-> NoSection, selection |-> NoEntry]
  /\ useAI = TRUE
  /\ pc = "done"
  /\ entriesMap = <<>>
  /\ entries = <<>>
  /\ validationIssues = {}
  /\ sortedStateMatchers = <<>>
  /\ workingHistory = <<>>
  /\ stateAssociations = EmptyAssociations
  /\ usedTopics = EmptyUsedTopics
  /\ cursor = 0
  /\ scoresMap = <<>>
  /\ winnersArr = <<>>
  /\ sel = EmptySelection

InitRelator ==
  /\ NoTurn
  /\ parser = NoParser
  /\ call \in CheckCalls \cup CheckTopicsCalls

CallCheck ==
  /\ call.fn = "check" /\ ~call.done
  /\ call' = [call EXCEPT !.done = TRUE,
                          !.result = check(Relator(call.relations), call.usedTopicsMap,
                                           call.start, call.end)]
  /\ UNCHANGED <<turnVars, parser>>

CallCheckTopics ==
  /\ call.fn = "checkTopics" /\ ~call.done
  /\ call' = [call EXCEPT !.done = TRUE,
                          !.result = checkTopics(Relator(call.relations), call.usedTopics,
                                                 call.includeImmediate)]
  /\ UNCHANGED <<turnVars, parser>>

NextRelator == CallCheck \/ CallCheckTopics

SpecRelator == InitRelator /\ [][NextRelator]_vars

checked == call.fn = "check" /\ call.done
receiver == Relator(call.relations)

(* The depths `check` reads for all but the immediate relations. *)
windowOf(c) == {d \in DOMAIN c.usedTopicsMap : d >= c.start /\ d <= c.end}
topicsIn(c, depths) == UNION {c.usedTopicsMap[d] : d \in depths}

(* The four causes of failure the documentation of `check` names. *)
namedCause(c) ==
  LET r == Relator(c.relations)
      window == topicsIn(c, windowOf(c))
      atStart == topicsIn(c, {c.start} \cap DOMAIN c.usedTopicsMap)
  IN \/ r.negated \cap window # {}
     \/ r.atLeastOne # {} /\ r.atLeastOne \cap window = {}
     \/ r.allOf # {} /\ ~(r.allOf \subseteq window)
     \/ r.immediate # {} /\ ~(r.immediate \subseteq atStart)

(* C11: when none of the four named causes holds, check returns the sum of *)
(* the three counts, which is not a failure.                                *)
C11_FailsOnlyOnNamedCauses ==
  (checked /\ ~namedCause(call)) =>
    call.result = Cardinality(receiver.atLeastOne \cap topicsIn(call, windowOf(call)))
                    + Cardinality(receiver.allOf) + Cardinality(receiver.immediate)

(* C12: check on a relator built from no relations returns 0, whatever the *)
(* map, the start and the end.                                              *)
C12_NoRelationsIsZero ==
  (checked /\ call.relations = {}) => call.result = 0

(* check was called on a relator without relations, over a map that holds  *)
(* topics, from before the start of the history.                            *)
C12_Witness ==
  /\ checked /\ call.relations = {} /\ call.result = 0
  /\ call.start < 0
  /\ \E d \in DOMAIN call.usedTopicsMap : call.usedTopicsMap[d] # {}

(* C13: check fails whenever a negated topic is at a depth of the window,  *)
(* whatever the other relations.                                            *)
C13_NegatedInWindowFails ==
  (checked /\ receiver.negated \cap topicsIn(call, windowOf(call)) # {})
    => call.result = Fail

(* check failed on a negated topic found at a depth other than the start,  *)
(* while the relations of the three other types were all there and met.     *)
C13_Witness ==
  /\ checked /\ call.result = Fail
  /\ receiver.negated \cap topicsIn(call, windowOf(call) \ {call.start}) # {}
  /\ receiver.negated \cap topicsIn(call, {call.start} \cap windowOf(call)) = {}
  /\ receiver.atLeastOne # {} /\ receiver.allOf # {} /\ receiver.immediate # {}
  /\ checkAtLeastOne(receiver, topicsIn(call, windowOf(call))) # Fail
  /\ checkAllOf(receiver, topicsIn(call, windowOf(call))) # Fail
  /\ call.start >= 0
  /\ receiver.immediate \subseteq call.usedTopicsMap[call.start]

(* C14: check succeeds with immediate relations only when every immediate  *)
(* topic is at the depth `start` itself.                                    *)
C14_ImmediateAtStartOnly ==
  (checked /\ receiver.immediate # {} /\ call.result # Fail) =>
    /\ call.start \in DOMAIN call.usedTopicsMap
    /\ receiver.immediate \subseteq call.usedTopicsMap[call.start]

(* check failed on an immediate topic that is in the window, at another    *)
(* depth than the start, and nothing else was in the way.                   *)
C14_Witness ==
  /\ checked /\ call.result = Fail
  /\ call.start \in DOMAIN call.usedTopicsMap
  /\ receiver.immediate # {}
  /\ receiver.immediate \subseteq topicsIn(call, windowOf(call))
  /\ ~(receiver.immediate \subseteq call.usedTopicsMap[call.start])
  /\ receiver.negated = {} /\ receiver.allOf = {}
  /\ receiver.atLeastOne \cap topicsIn(call, windowOf(call)) # {}

(* The UsedTopicsMap whose only populated depth is `start`. *)
onlyAt(start, topicSet) ==
  [d \in 0..(EntryCount - 1) |-> IF d = start THEN topicSet ELSE {}]

(* C15: checkTopics(S, true) returns what check returns on a map whose     *)
(* only populated depth is the start and holds S.                           *)
C15_CheckTopicsAsCheck ==
  (call.fn = "checkTopics" /\ call.done /\ call.includeImmediate) =>
    \A start \in 0..(EntryCount - 1) : \A end \in start..EntryCount :
      call.result = check(receiver, onlyAt(start, call.usedTopics), start, end)

----------------------------------------------------------------------------
(* The extractors.  A raw string is known by its text; how each grammar    *)
(* fares on it is looked up.  `NoText` is a property that is absent or the *)
(* empty string.                                                            *)

NoText == "<none>"

(* `keys` that start with "$", by the part of the classic key the parser   *)
(* of that part rejects, if any.                                            *)
ClassicKeys ==
  [ text : {"$Lore[t1](w)"}, rejects : {"none"} ] \cup
  [ text : {"$[t1]"}, rejects : {"type"} ] \cup
  [ text : {"$Lore[t1"}, rejects : {"matchers"} ] \cup
  [ text : {"$Lore[t1](w"}, rejects : {"matchers"} ]

startsWithDollar(text) == \E k \in ClassicKeys : k.text = text
rejectedPart(text) == (CHOOSE k \in ClassicKeys : k.text = text).rejects

(* The strings the parsers other than the classic key's reject: an empty   *)
(* matcher in a list, a type of two words, a known type with a tail.       *)
Malformed =={"w,, (", "Lo re", "characterX"}

(* The type a well-formed type string stands for: a bare word is a        *)
(* state-engine type as an attribute; as the `type` property it is a      *)
(* vanilla type if it is one of the known ones and of unknown kind         *)
(* otherwise.                                                               *)
entryTypeWrapper(value, type) == [type |-> type, value |-> value]
typeAttr(text) == entryTypeWrapper(text, "state-engine")
typeField(text) ==
  IF text = "character" THEN entryTypeWrapper(text, "vanilla")
  ELSE entryTypeWrapper(text, "unknown")

RawEntry(keys, attrType, attrTopics, type) ==
  [ keys |-> keys, type |-> type,
    attributes |-> [type |-> attrType, topics |-> attrTopics,
                    keywords |-> NoText, relations |-> NoText] ]

RawCatalogue ==
  { RawEntry("$Lore[t1](w)", NoText, NoText, NoText),
    RawEntry("$[t1]", NoText, NoText, NoText),
    RawEntry("$Lore[t1", NoText, NoText, NoText),
    RawEntry("w, :t1", "Lore", "t1", NoText),
    RawEntry("w,, (", "Lore", NoText, NoText),
    RawEntry("w, :t1", "Lo re", NoText, "character"),
    RawEntry("w, :t1", NoText, NoText, "character") }

MaxRawEntries == 2
RawScenarios == UNION {[1..n -> RawCatalogue] : n \in 1..MaxRawEntries}

Dialects == <<"Classic", "Attribute", "Field">>
Fields == {"type", "topics", "keywords", "relations"}

Undefined == [status |-> "undefined"]
Value(v) == [status |-> "value", value |-> v]
ParsingError(dialect, sourceKey, sourceStr) ==
  [status |-> "error", dialect |-> dialect, sourceKey |-> sourceKey, sourceStr |-> sourceStr]

(* What a dialect's extractor resolves to for a field of a raw entry. *)
classicPart(field) ==
  CASE field = "type" -> <<"type">>
    [] field = "topics" -> <<"type", "context">>
    [] OTHER -> <<"type", "context", "matchers">>

extractClassic(field, entry) ==
  IF ~startsWithDollar(entry.keys) THEN Undefined
  ELSE IF rejectedPart(entry.keys) \in Range(classicPart(field))
         THEN ParsingError("Classic", <<"keys">>, entry.keys)
       ELSE IF field = "type" THEN Value(entryTypeWrapper("Lore", "state-engine"))
       ELSE Value(<<field, entry.keys>>)

extractAttr(field, entry) ==
  LET text == entry.attributes[field] IN
  IF text = NoText THEN Undefined
  ELSE IF text \in Malformed THEN ParsingError("Attribute", <<"attributes", field>>, text)
  ELSE IF field = "type" THEN Value(typeAttr(text))
  ELSE Value(<<field, text>>)

extractField(field, entry) ==
  CASE field = "type" ->
         IF entry.type = NoText THEN Undefined
         ELSE IF entry.type \in Malformed THEN ParsingError("Field", <<"type">>, entry.type)
         ELSE Value(typeField(entry.type))
    [] field = "topics" -> Undefined
    [] OTHER ->
         IF entry.keys = NoText THEN Undefined
         ELSE IF entry.keys \in Malformed THEN ParsingError("Field", <<"keys">>, entry.keys)
         ELSE Value(<<field, entry.keys>>)

extract(dialect, field, entry) ==
  CASE dialect = "Classic" -> extractClassic(field, entry)
    [] dialect = "Attribute" -> extractAttr(field, entry)
    [] OTHER -> extractField(field, entry)

(* resolveFirst that goes on to the next pattern after an error. *)
RECURSIVE resolveFirstPastErrors(_, _, _)
resolveFirstPastErrors(patterns, field, entry) ==
  IF patterns = <<>> THEN [result |-> Undefined, consulted |-> <<>>]
  ELSE LET first == extract(Head(patterns), field, entry)
           rest == resolveFirstPastErrors(Tail(patterns), field, entry)
       IN IF first.status # "value"
            THEN [result |-> IF rest.result.status = "undefined" THEN first ELSE rest.result,
                  consulted |-> <<Head(patterns)>> \o rest.consulted]
            ELSE [result |-> first, consulted |-> <<Head(patterns)>>]

(* resolveFirst: the patterns are resolved one after the other until one   *)
(* gives a value or throws; `consulted` are the patterns resolved.          *)
RECURSIVE resolveFirst(_, _, _)
resolveFirst(patterns, field, entry) ==
  IF patterns = <<>> THEN [result |-> Undefined, consulted |-> <<>>]
  ELSE LET first == extract(Head(patterns), field, entry)
           rest == resolveFirst(Tail(patterns), field, entry)
       IN IF first.status = "undefined"
            THEN [result |-> rest.result, consulted |-> <<Head(patterns)>> \o rest.consulted]
            ELSE [result |-> first, consulted |-> <<Head(patterns)>>]

(* The memoized deferreds a dialect's extractor resolves for a field, in   *)
(* the order they are executed, each with the parser it runs, the string   *)
(* it runs it on, and whether executing it gets as far as the parse.       *)
Step(memo, parserName, text, parses) ==
  [memo |-> memo, parser |-> parserName, text |-> text, parses |-> parses]

classicSteps(field, entry) ==
  IF ~startsWithDollar(entry.keys) THEN <<>>
  ELSE LET parts == classicPart(field) IN
       [ j \in 1..Len(parts) |->
           Step(<<"extractClassic", parts[j]>>, <<"classicKey", parts[j]>>, entry.keys,
                \A k \in 1..(j - 1) : parts[k] # rejectedPart(entry.keys)) ]

attrSteps(field, entry) ==
  << Step(<<"extractAttr", field>>, <<"attr", field>>, entry.attributes[field],
          entry.attributes[field] # NoText) >>

fieldSteps(field, entry) ==
  CASE field = "type" ->
         << Step(<<"extractField", field>>, <<"typeField">>, entry.type,
                 entry.type # NoText) >>
    [] field = "topics" -> <<>>
    [] OTHER ->
         \* matchMatchers is called by both and is not memoized itself
         << Step(<<"extractField", field>>, <<"matcherList">>, entry.keys,
                 entry.keys # NoText) >>

stepsOf(dialect, field, entry) ==
  CASE dialect = "Classic" -> classicSteps(field, entry)
    [] dialect = "Attribute" -> attrSteps(field, entry)
    [] OTHER -> fieldSteps(field, entry)

(* memoize: the store is keyed by the argument, which is the entry. *)
storeKey(step, i) == [memo |-> step.memo, arg |-> i]

NoQuery == [entry |-> 0]

(* The extractors after `extractor[field](worldEntries[i]).result`, asked  *)
(* by `caller`.                                                             *)
queried(p, i, field, caller) ==
  LET entry == p.worldEntries[i]
      resolved == resolveFirst(Dialects, field, entry)
      steps == Concat([k \in 1..Len(resolved.consulted) |->
                         stepsOf(resolved.consulted[k], field, entry)])
      fresh == SelectSeq(steps, LAMBDA s : storeKey(s, i) \notin p.executed)
      parsing == SelectSeq(fresh, LAMBDA s : s.parses)
  IN [ p EXCEPT
         !.executed = @ \cup {storeKey(steps[k], i) : k \in 1..Len(steps)},
         !.parses = @ (+) SetToBag({<<parsing[k].parser, parsing[k].text>> :
                                      k \in 1..Len(parsing)}),
         !.raised = IF resolved.result.status = "error"
                      THEN @ \cup {[entry |-> i, field |-> field, caller |-> caller,
                                    error |-> resolved.result]}
                      ELSE @,
         !.last = [entry |-> i, field |-> field, result |-> resolved.result,
                   consulted |-> resolved.consulted] ]

FreshParsers ==
  [ fn : {"extract"}, worldEntries : RawScenarios, executed : {{}}, parses : {EmptyBag},
    raised : {{}}, last : {NoQuery}, thrown : {FALSE} ]

InitParser ==
  /\ NoTurn
  /\ call = NoCall
  /\ parser \in FreshParsers

(* A field of a raw entry is asked of the extractor. *)
Extract ==
  \E i \in 1..Len(parser.worldEntries), field \in Fields :
    /\ parser' = queried(parser, i, field, "api")
    /\ UNCHANGED <<turnVars, call>>

checkType(typeDef, forType) ==
  /\ typeDef.status = "value"
  /\ typeDef.value.type = "state-engine"
  /\ typeDef.value.value = forType

(* One round of the loop of produceEntries, for an entry class and a raw   *)
(* entry.  The type is resolved into a value or an error; an error is not  *)
(* of the class's type and the round ends there.  For an entry of the      *)
(* class's type the constructor is called with (info, config) where it     *)
(* takes (config, entryId, worldInfo, parsedResult), and fails on the      *)
(* missing parsedResult with an error that produceEntries rethrows.        *)
ProduceEntriesRound ==
  \E i \in 1..Len(parser.worldEntries), forType \in Range(ClassOrder) :
    /\ ~parser.thrown
    /\ LET after == queried(parser, i, "type", "produceEntries") IN
       parser' = [after EXCEPT !.thrown = checkType(after.last.result, forType)]
    /\ UNCHANGED <<turnVars, call>>

NextParser == Extract \/ ProduceEntriesRound

SpecParser == InitParser /\ [][NextParser]_vars

(* C16: every parse error a dialect has raised for a raw entry while the   *)
(* entries were produced is among the validation issues, under that entry. *)
C16_ParseErrorsRecorded ==
  \A e \in parser.raised :
    e.caller = "produceEntries" => e.entry \in validationIssues

C18_OneParsePerString ==
  \A parse \in BagToSet(parser.parses) : CopiesIn(parse, parser.parses) = 1

----------------------------------------------------------------------------
(* The default associator within associateState. *)

(* The pair associateState is about to hand to an associator, if any. *)
pairAtHand == helperItems(entries, stateAssociations)[cursor + 1]

(* The entry classes that override `associator` defer to the default one   *)
(* for the sources they do not treat themselves; Scene and Direction never *)
(* do.                                                                      *)
usesDefaultAssociator(e, item) ==
  /\ e.kind \notin {"Scene", "Direction"}
  /\ ~(e.kind = "Player" /\ item.source = Implicit /\ ~env.multiplayer)
  /\ ~(e.kind = "NPC" /\ item.source = Implicit)

(* C19: whenever associateState associates an entry with a source on the   *)
(* word of the default associator, the source has text, the entry has an   *)
(* inclusive keyword if the source is playerMemory and an inclusive        *)
(* keyword or relation if it is implicitRef, and the keyword check and the *)
(* relation check both succeed on the state the associator was called in.  *)
C19_DefaultAssociatorAccepts ==
  [][ ( /\ pc = "associateState"
        /\ cursor < Len(helperItems(entries, stateAssociations))
        /\ usesDefaultAssociator(entries[pairAtHand.m], pairAtHand)
        /\ pairAtHand.m \notin Range(stateAssociations[pairAtHand.source])
        /\ pairAtHand.m \in Range(stateAssociations'[pairAtHand.source]) )
      => LET item == pairAtHand
             e == entries[item.m]
         IN /\ isParamsTextable(item)
            /\ item.source = PlayerMemory => hasInclusiveKeywords(e)
            /\ item.source.kind = "implicitRef" => hasInclusiveMatchers(e)
            /\ checkKeywords(e, item, entries, env)
            /\ checkRelations(e, item, entries, usedTopics).ok ]_vars

(* The default associator has accepted playerMemory for an entry, and an   *)
(* implicit reference for an entry.                                         *)
C19_Witness ==
  /\ \E id \in Range(stateAssociations[PlayerMemory]) :
       entries[id].kind \notin {"Scene", "Direction"}
  /\ \E id \in Range(stateAssociations[ImplicitRef]) :
       entries[id].kind \notin {"Scene", "Direction"}

----------------------------------------------------------------------------
(* The turn over Lore entries of one concept: entries without inclusive    *)
(* matchers, and entries they could copy their matchers from.               *)

ModifierCatalogue ==
  { Info("Lore", {"t2"}, {}, {}, {}),
    Info("Lore", {"t2"}, {Kw("exclude", "w")}, {}, {}),
    Info("Lore", {"t2"}, {}, {Rel("atLeastOne", "t3")}, {}),
    Info("Lore", {"t2"}, {Kw("include", "w")}, {}, {}),
    Info("Lore", {"t2"}, {}, {Rel("negated", "t1"), Rel("atLeastOne", "t3")}, {}),
    Info("Lore", {"t1", "t2"}, {Kw("include", "w")}, {}, {}) }

ModifierScenarios == [1..OrderEntries -> ModifierCatalogue]

InitModifier == InitOver(ModifierScenarios)

SpecModifier == InitModifier /\ [][Next]_vars

(* The stage that runs is one that follows applyModifiers. *)
afterModifiers ==
  pc \in { "finalizeForProcessing", "associateState", "applyPreRules",
           "superHappyRouletteTime", "updateCaches" }

(* The entry as produceEntries made it from its world info. *)
authored(id) == NewEntry(id, worldEntries[id])

(* The Lore entries of the table that have a topic and no inclusive matcher. *)
recipients ==
  { b \in Range(entriesMap) :
      /\ authored(b).kind = "Lore"
      /\ authored(b).topics # {}
      /\ ~hasInclusiveMatchers(authored(b)) }

holdsMatchersOf(b, a) ==
  /\ entries[b].keywords = authored(a).keywords
  /\ entries[b].relations = authored(a).relations

(* The other Lore entries that share a topic with `b` and have inclusive   *)
(* matchers.                                                                *)
sharingDonors(b) ==
  { a \in Range(entriesMap) \ {b} :
      /\ authored(a).kind = "Lore"
      /\ authored(a).topics \cap authored(b).topics # {}
      /\ hasInclusiveMatchers(authored(a)) }

(* The other Lore entries with the very topics of `b`, with at least one   *)
(* matcher and no exclusive keyword and no negated relation.                *)
eligibleDonors(b) ==
  { a \in Range(entriesMap) \ {b} :
      /\ authored(a).kind = "Lore"
      /\ authored(a).topics = authored(b).topics
      /\ hasMatchers(authored(a))
      /\ \A kw \in authored(a).keywords : isInclusiveKeyword(kw)
      /\ \A rel \in authored(a).relations : isInclusiveRelation(rel) }

validated == [id \in Range(entriesMap) |-> entryForModifier(authored(id))]

matchersOf(e) == <<e.topics, e.keywords, e.relations>>

(* C21: after the modifier stage every entry of the table has the topics,  *)
(* keywords and relations its own modifier gives it when shown the entries *)
(* as validation left them, every entry outside the table has those it was *)
(* produced with, and running the modifiers in any other order of the      *)
(* table gives the same.                                                    *)
C21_ModifiersSeeValidated ==
  afterModifiers =>
    /\ \A id \in 1..Len(entries) :
         matchersOf(entries[id]) =
           matchersOf(IF id \in Range(entriesMap) THEN modifier(authored(id), validated)
                      ELSE authored(id))
    /\ \A order \in Orderings(Range(entriesMap)) : \A id \in Range(entriesMap) :
         matchersOf(modifyStateEntries(order, [i \in 1..Len(entries) |-> authored(i)],
                                       validated)[id])
           = matchersOf(entries[id])

(* Two entries have each copied the matchers of a third: the first had     *)
(* them by the time the modifier of the second ran.                         *)
C21_Witness ==
  /\ afterModifiers
  /\ \E b1, b2 \in recipients :
       /\ b1 # b2
       /\ ~holdsMatchersOf(b1, b1)
       /\ ~holdsMatchersOf(b2, b2)

----------------------------------------------------------------------------
(* applyPreRules on its own, for entry classes whose preRules may return   *)
(* false: a round is one pass of its loop, for a pair and the result of    *)
(* the preRules call.                                                       *)

PreRuleSources == {Implicit, H(0), H(1)}
PreRuleIds == 1..MaxEntries

AssociationLists == UNION {Orderings(S) : S \in SUBSET PreRuleIds}

PreRuleAssociations ==
  { [s \in Sources |-> IF s \in PreRuleSources THEN f[s] ELSE <<>>] :
      f \in [PreRuleSources -> AssociationLists] }

NoPair == Item(NoEntry, Implicit, NoEntry)

PreRulesCalls ==
  [ fn : {"applyPreRules"}, associations : PreRuleAssociations,
    before : {EmptyAssociations}, pair : {NoPair}, ok : {TRUE}, done : {FALSE} ]

InitPreRules ==
  /\ NoTurn
  /\ parser = NoParser
  /\ call \in PreRulesCalls

PreRulesRound ==
  /\ call.fn = "applyPreRules"
  /\ \E m \in PreRuleIds, source \in PreRuleSources, ok \in BOOLEAN :
       LET item == Item(m, source, NoEntry) IN
       call' = [call EXCEPT
                  !.before = call.associations,
                  !.associations = IF m \in Range(@[source])
                                     THEN applyVerdict(@, item, ok) ELSE @,
                  !.pair = item, !.ok = ok, !.done = TRUE]
  /\ UNCHANGED <<turnVars, parser>>

SpecPreRules == InitPreRules /\ [][PreRulesRound]_vars

(* The last round was for an associated pair whose preRules returned false. *)
rejected ==
  /\ call.fn = "applyPreRules"
  /\ call.done
  /\ ~call.ok
  /\ call.pair.m \in Range(call.before[call.pair.source])

(* C22: after a round for an associated pair whose preRules returned       *)
(* false, the pair's entry is no longer associated with the pair's source, *)
(* and every other association is as it was, in the order it was.           *)
C22_DropsThatAssociation ==
  rejected =>
    /\ call.pair.m \notin Range(call.associations[call.pair.source])
    /\ \A s \in Sources :
         /\ s # call.pair.source => call.associations[s] = call.before[s]
         /\ \A id \in Range(call.before[s]) :
              (s # call.pair.source \/ id # call.pair.m)
                => id \in Range(call.associations[s])
         /\ Len(call.associations[s]) >= Len(call.before[s]) - 1
         /\ \A i, j \in 1..Len(call.associations[s]) :
              i < j => IndexOf(call.before[s], call.associations[s][i])
                         < IndexOf(call.before[s], call.associations[s][j])

(* The rejected entry was associated with another source as well, and      *)
(* another entry with the source of the pair.                               *)
C22_Witness ==
  /\ rejected
  /\ \E s \in Sources \ {call.pair.source} : call.pair.m \in Range(call.before[s])
  /\ \E id \in Range(call.before[call.pair.source]) : id # call.pair.m

----------------------------------------------------------------------------
(* The snapshots of the turn cache. *)

(* C23: every snapshot in the turn cache holds at most one item for the    *)
(* front memory, at most one for the author's note, and at most one for    *)
(* each depth of the history.                                               *)
C23_OneItemPerSlot ==
  \A k \in 1..Len(turnCache) :
    LET storage == turnCache[k].storage IN
    /\ Len(storage.forFrontMemory) <= 1
    /\ Len(storage.forAuthorsNote) <= 1
    /\ \A d \in 0..(EntryCount - 1) : Len(storage.forHistory[d]) <= 1

(* A snapshot holds an item for each depth of the history, one of which    *)
(* had two contestants.                                                     *)
C23_Witness ==
  \E k \in 1..Len(turnCache) :
    LET storage == turnCache[k].storage IN
    /\ \A d \in 0..(EntryCount - 1) : Len(storage.forHistory[d]) = 1
    /\ \E g \in 1..Len(winnersArr) :
         /\ isForHistory(winnersArr[g].source)
         /\ Len(winnersArr[g].contestants) >= 2

(* The turn over a player and the lore that its text and the player's      *)
(* memory bring up.                                                         *)
ContextEntries == 4

ContextCatalogue ==
  { Info("Player", {"t1"}, {}, {}, {"w"}),
    Info("Lore", {"t3"}, {Kw("include", "w")}, {}, {}) }

ContextScenarios == [1..ContextEntries -> ContextCatalogue]

InitContextMemory == InitOver(ContextScenarios)

SpecContextMemory == InitContextMemory /\ [][Next]_vars

(* C24: in every snapshot of the turn cache, no two entries of             *)
(* forContextMemory are of the same type.                                   *)
C24_ContextMemoryOnePerType ==
  \A k \in 1..Len(turnCache) :
    \A a, b \in turnCache[k].storage.forContextMemory :
      a # b => entries[a].kind # entries[b].kind

(* C25: every record of the parsed entry cache has the topics, keywords    *)
(* and relations that the parser yields for the world info the record was  *)
(* made of.                                                                 *)
C25_CacheRoundTrip ==
  \A i \in 1..Len(stateDataCache) :
    LET record == stateDataCache[i] IN
    /\ record.topics = authored(record.entryId).topics
    /\ record.keywords = authored(record.entryId).keywords
    /\ record.relations = authored(record.entryId).relations

----------------------------------------------------------------------------
(* The roulette of one source on its own, for valuators of any result: the *)
(* candidates of a group are known by their place in it, `raw` are the     *)
(* results of their valuators.                                              *)

MaxCandidates == 3

RawScores ==
  { 0 - fixedScore(1), 0, 1, fixedScore(MaxScore), fixedScore(MaxScore) + 1 }

RouletteCalls ==
  [ fn : {"roulette"}, done : {FALSE}, order : {<<>>},
    raw : UNION {[1..n -> RawScores] : n \in 0..MaxCandidates} ]

InitRoulette ==
  /\ NoTurn
  /\ parser = NoParser
  /\ call \in RouletteCalls

(* The scores are clamped, the candidates with a score are pushed, and the *)
(* wheel is spun until it is empty.                                         *)
SpinGroup ==
  /\ call.fn = "roulette"
  /\ ~call.done
  /\ \E drawn \in spinToWin(pushed([i \in 1..Len(call.raw) |->
                                      [id |-> i, score |-> clampScore(call.raw[i])]])) :
       call' = [call EXCEPT !.done = TRUE, !.order = drawn]
  /\ UNCHANGED <<turnVars, parser>>

SpecRoulette == InitRoulette /\ [][SpinGroup]_vars

(* C26: every weight in the order drawn for a group is above 0 and at most *)
(* 1000, it is the valuator's result or 1000 if that was above; and no     *)
(* candidate whose valuator gave 0 or less is in the order.                 *)
C26_WeightsWithinBounds ==
  (call.fn = "roulette" /\ call.done) =>
    /\ \A k \in 1..Len(call.order) :
         LET c == call.order[k] IN
         /\ c.score > 0
         /\ c.score <= fixedScore(MaxScore)
         /\ c.score = call.raw[c.id] \/ (c.score = fixedScore(MaxScore) /\ call.raw[c.id] > c.score)
    /\ \A i \in 1..Len(call.raw) :
         call.raw[i] <= 0 => \A k \in 1..Len(call.order) : call.order[k].id # i

(* A group of three: one valuator gave less than 0, one more than 1000,    *)
(* one a score in between; the order holds the latter two.                  *)
C26_Witness ==
  /\ call.fn = "roulette"
  /\ call.done
  /\ Len(call.raw) = 3
  /\ \E i \in 1..3 : call.raw[i] < 0
  /\ \E i \in 1..3 : call.raw[i] > fixedScore(MaxScore)
  /\ \E i \in 1..3 : call.raw[i] = 1
  /\ Len(call.order) = 2

(* The entries among the pairs of a group that have a score for at least   *)
(* one of the texts they are paired with.                                   *)
survivors(group) == {c.id : c \in Range(rouletteOf(group, entries))}

(* C27: once the wheels are spun, the order of every source holds each of  *)
(* the source's surviving entries, and holds it once.                       *)
C27_OrderIsPermutation ==
  (pc = "superHappyRouletteTime" /\ cursor = 1) =>
    LET groups == groupBy(associatedItems(entries, stateAssociations)) IN
    \A g \in 1..Len(winnersArr) :
      LET order == winnersArr[g].contestants IN
      /\ \A i, j \in 1..Len(order) : i # j => order[i].id # order[j].id
      /\ {order[i].id : i \in 1..Len(order)} = survivors(groups[g].group)

(* The place of a source in the documented order of the pre-rules: the     *)
(* five sources by name, then the history from the oldest text on.          *)
documentedPlace(source) ==
  CASE source = Implicit -> 1
    [] source = PlayerMemory -> 2
    [] source = AuthorsNote -> 3
    [] source = FrontMemory -> 4
    [] source = ImplicitRef -> 5
    [] OTHER -> 6 + Len(workingHistory) - source.depth

(* C28: the calls of preRules that applyPreRules makes are in the order of *)
(* the sources: no call for a source follows a call for a later source.     *)
C28_PreRulesSourceBySource ==
  pc = "applyPreRules" =>
    LET calls == preRulesLoop(1, entries, stateAssociations).calls IN
    \A i, j \in 1..Len(calls) :
      i < j => documentedPlace(calls[i].source) <= documentedPlace(calls[j].source)

----------------------------------------------------------------------------
(* The Classic dialect, character by character: `keys` is split into the   *)
(* type, the topics part and the matchers part, each part being parsed     *)
(* from the text the part before it left over.  Offsets count from 0,      *)
(* lines and columns from 1, as the parser library reports them.            *)

MaxKeyLen == 4

KeyChars == {"a", "\n", "(", ")", "[", "]"}

WordChars == {"a"}

SpaceChars == {"\n"}

KeyStrings ==
  {<<"$">> \o rest : rest \in UNION {[1..n -> KeyChars] : n \in 0..MaxKeyLen}}

(* The index the parser library gives for the offset i of `input`. *)
makeLineColumnIndex(input, i) ==
  LET breaks == {j \in 1..i : input[j] = "\n"}
      lastBreak == IF breaks = {} THEN 0 ELSE CHOOSE j \in breaks : \A k \in breaks : k <= j
  IN [offset |-> i, line |-> 1 + Cardinality(breaks), column |-> i - lastBreak + 1]

NoIndex == [offset |-> 0, line |-> 1, column |-> 1]

parseSuccess(end) == [status |-> TRUE, end |-> end, index |-> NoIndex]

parseFailure(input, furthest) ==
  [status |-> FALSE, end |-> 0, index |-> makeLineColumnIndex(input, furthest)]

(* The length of the run of characters of `chars` that starts after the    *)
(* offset i of `input`.                                                     *)
runOf(input, i, chars) ==
  CHOOSE n \in 0..(Len(input) - i) :
    /\ \A j \in (i + 1)..(i + n) : input[j] \in chars
    /\ i + n = Len(input) \/ input[i + n + 1] \notin chars

(* restFragment: p.index and p.all at the offset i of `input`. *)
restFragment(input, i) ==
  [offset |-> makeLineColumnIndex(input, i).offset,
   line |-> makeLineColumnIndex(input, i).line,
   column |-> makeLineColumnIndex(input, i).column,
   text |-> SubSeq(input, i + 1, Len(input))]

NoFragment == [offset |-> 0, line |-> 1, column |-> 1, text |-> <<>>]

(* _RestFragment.then, given what parser.parse(this.text) returned. *)
then(this, result) ==
  IF result.status THEN result
  ELSE [result EXCEPT !.index = [offset |-> @.offset + this.offset,
                                  line |-> @.line + this.line - 1,
                                  column |-> @.column + this.column - 1]]

(* _RestFragment.adjustCursor. *)
adjustCursor(this, nextFragment) ==
  [offset |-> this.offset + nextFragment.offset,
   line |-> this.line + nextFragment.line - 1,
   column |-> this.column + nextFragment.column - 1,
   text |-> nextFragment.text]

(* patterns.type: the dollar-sign and the word after it; the rest is left  *)
(* over.                                                                    *)
patternsType(keys) ==
  IF keys[1] = "$" /\ runOf(keys, 1, WordChars) > 0
    THEN parseSuccess(1 + runOf(keys, 1, WordChars))
    ELSE parseFailure(keys, 0)

(* patterns.context: the topics between brackets, or no topics at all; the *)
(* rest is left over.                                                       *)
patternsContext(text) ==
  IF /\ Len(text) >= 2
     /\ text[1] = "["
     /\ 1 + runOf(text, 1, WordChars) < Len(text)
     /\ text[2 + runOf(text, 1, WordChars)] = "]"
    THEN parseSuccess(2 + runOf(text, 1, WordChars))
    ELSE parseSuccess(0)

(* takeUntil of the closing parenthesis that only white-space follows: the *)
(* offsets in `text` at which it is found.                                  *)
closings(text) ==
  {i \in 1..(Len(text) - 1) :
     /\ text[i + 1] = ")"
     /\ \A j \in (i + 2)..Len(text) : text[j] \in SpaceChars}

(* What the grammar of the matchers makes of the text between the          *)
(* parentheses: nothing to parse is no matchers; of any other text it      *)
(* makes a list of matchers or stops at one of its offsets.                 *)
matchersOutcomes(innerText) ==
  IF innerText = <<>> THEN {parseSuccess(0)}
  ELSE {parseSuccess(Len(innerText))}
         \cup {parseFailure(innerText, k) : k \in 0..Len(innerText)}

(* patterns.matchers: the matchers isolated between parentheses, or no     *)
(* matchers at all, and then the end of the text.  A failure is at the     *)
(* furthest offset a parser got to: the end of the text when the           *)
(* parenthesis is never closed; the start of the isolated text plus the    *)
(* offset in it when its parse fails.                                       *)
patternsMatchers(text) ==
  IF text = <<>> THEN {parseSuccess(0)}
  ELSE IF text[1] # "(" THEN {parseFailure(text, 0)}
  ELSE IF closings(text) = {} THEN {parseFailure(text, Len(text))}
  ELSE LET iEnd == CHOOSE i \in closings(text) : TRUE
           start == makeLineColumnIndex(text, 1)
       IN { IF result.status THEN parseSuccess(Len(text))
            ELSE parseFailure(text, start.offset + result.index.offset) :
              result \in matchersOutcomes(SubSeq(text, 2, iEnd)) }

NoFailure == [part |-> "none", text |-> <<>>, relative |-> NoIndex, index |-> NoIndex]

ClassicCalls ==
  [ fn : {"extractClassic"}, keys : KeyStrings, stage : {"type"},
    topicPart : {NoFragment}, matchersPart : {NoFragment}, failure : {NoFailure} ]

InitClassic ==
  /\ NoTurn
  /\ parser = NoParser
  /\ call \in ClassicCalls

(* What a ParsingError is built from: the part that was parsed, its text,  *)
(* the index the parser gave and the index that is reported.                *)
thrown(part, text, relative, result) ==
  [part |-> part, text |-> text, relative |-> relative.index, index |-> result.index]

SplitType ==
  /\ call.fn = "extractClassic"
  /\ call.stage = "type"
  /\ LET result == patternsType(call.keys) IN
     call' = IF result.status
               THEN [call EXCEPT !.stage = "topics",
                                 !.topicPart = restFragment(call.keys, result.end)]
               ELSE [call EXCEPT !.stage = "failed",
                                 !.failure = thrown("type", call.keys, result, result)]
  /\ UNCHANGED <<turnVars, parser>>

SplitTopics ==
  /\ call.fn = "extractClassic"
  /\ call.stage = "topics"
  /\ LET topicPart == call.topicPart
         parsed == patternsContext(topicPart.text)
         result == then(topicPart, parsed)
     IN call' = IF result.status
                  THEN [call EXCEPT
                          !.stage = "matchers",
                          !.matchersPart =
                             adjustCursor(topicPart, restFragment(topicPart.text, result.end))]
                  ELSE [call EXCEPT !.stage = "failed",
                                    !.failure = thrown("topics", topicPart.text, parsed, result)]
  /\ UNCHANGED <<turnVars, parser>>

SplitMatchers ==
  /\ call.fn = "extractClassic"
  /\ call.stage = "matchers"
  /\ \E parsed \in patternsMatchers(call.matchersPart.text) :
       LET result == then(call.matchersPart, parsed) IN
       call' = IF result.status
                 THEN [call EXCEPT !.stage = "done"]
                 ELSE [call EXCEPT
                         !.stage = "failed",
                         !.failure = thrown("matchers", call.matchersPart.text, parsed, result)]
  /\ UNCHANGED <<turnVars, parser>>

NextClassic == SplitType \/ SplitTopics \/ SplitMatchers

SpecClassic == InitClassic /\ [][NextClassic]_vars

(* C29: an error found in the topics part or in the matchers part is       *)
(* reported at the index, in `keys`, of the character the parser stopped   *)
(* at: the part's text being the end of `keys`, that character is as far   *)
(* into `keys` as the text before the part and the parser's offset into    *)
(* the part together.                                                       *)
C29_AbsolutePosition ==
  (call.fn = "extractClassic" /\ call.stage = "failed"
     /\ call.failure.part \in {"topics", "matchers"}) =>
    call.failure.index =
      makeLineColumnIndex(call.keys,
                          Len(call.keys) - Len(call.failure.text) + call.failure.relative.offset)

----------------------------------------------------------------------------
(* A run of actions past the end of the Director's first section: the      *)
(* adventure starts over a record of a player, which the player may at any *)
(* action rewrite into a Direction record.                                  *)

(* The actions 0 to 13: the first section and two actions of the second. *)
HoldTurns == 14

DirectorRecord == Info("Direction", {}, {}, {}, {})

DirectorScenarios == [1..1 -> {Info("Player", {"t1"}, {}, {}, {"w"})}]

InitDirector == InitOver(DirectorScenarios)

NextAction ==
  /\ pc = "done"
  /\ actionCount + 1 < HoldTurns
  /\ actionCount' = actionCount + 1
  /\ \/ worldEntries' = worldEntries
     \/ worldEntries' = <<DirectorRecord>>
  /\ useAI' = TRUE
  /\ pc' = "start"
  /\ UNCHANGED <<libraryVars, env, engineVersion, turnCache, stateDataCache, director,
                 contextVars>>

NextDirector == Next \/ NextAction

SpecDirector == InitDirector /\ [][NextDirector]_vars

(* The actions at which an entry won the author's note, as the turn cache  *)
(* has recorded them.                                                       *)
selectedAt == {c.turn : c \in {s \in Range(turnCache) : s.storage.forAuthorsNote # <<>>}}

(* C30: between two actions at which a Direction entry was selected for    *)
(* the author's note lie at least 12 actions.                               *)
C30_HeldForTwelveActions ==
  \A first, second \in selectedAt : first < second => second - first >= DirectorHold

----------------------------------------------------------------------------
(* The author's note over a run of turns: an adventure with one Direction  *)
(* record without matchers, of id 1, whose text the player may rewrite,    *)
(* which the player may remove, and a player who may set a note with the   *)
(* set-authors-note command.  `hashing` is whether the serialized records  *)
(* carry the hash of the world-info they were made of.                      *)

NoteTurns == 3

LongText == "a direction that runs to more than forty characters"

EntryTexts == {"", "north", "south", LongText}

PlayerNotes == {"", "mine", "north"}

NoHash == "<no hash>"

(* objectHash.sha1({ text }): a digest that tells the texts apart. *)
sha1(text) == "sha1:" \o text

hashText(text) ==
  IF text = "" THEN ""
  ELSE IF Len(text) <= 40 THEN text
  ELSE sha1(text)

TheDirection == 1

NoteStates ==
  [ fn : {"authorsNote"}, hashing : BOOLEAN, actionCount : {0},
    present : {TRUE}, text : EntryTexts,
    cached : {FALSE}, infoHash : {NoHash},
    director : {[section |-> NoSection, selection |-> NoEntry]},
    authorsNote : {""}, setAuthorsNote : {FALSE}, last : {"none"} ]

InitNote ==
  /\ NoTurn
  /\ parser = NoParser
  /\ call \in NoteStates

(* The listener of state-engine.entryTextChanged. *)
entryTextChanged(s) ==
  IF s.infoHash = NoHash THEN s
  ELSE IF s.director.selection # TheDirection THEN s
  ELSE IF s.text = "" THEN s
  ELSE IF s.authorsNote # "" /\ hashText(s.authorsNote) = s.infoHash THEN s
  ELSE [s EXCEPT !.authorsNote = s.text]

(* The listener of state-engine.entryRemoved. *)
entryRemoved(s) ==
  IF s.director.selection # TheDirection THEN s
  ELSE [s EXCEPT !.director.selection = NoEntry]

checkForChanges(s) ==
  IF ~s.cached THEN s
  ELSE IF ~s.present THEN entryRemoved(s)
  ELSE IF s.infoHash = NoHash THEN s
  ELSE IF hashText(s.text) # s.infoHash THEN entryTextChanged(s)
  ELSE s

(* getExpectedText: the empty string stands for undefined. *)
getExpectedText(s) ==
  IF s.director.selection = NoEntry THEN ""
  ELSE IF ~s.present THEN ""
  ELSE s.text

restoreMissingDirection(s) ==
  IF s.authorsNote # "" THEN s
  ELSE IF getExpectedText(s) = "" THEN s
  ELSE [s EXCEPT !.authorsNote = getExpectedText(s)]

(* The pipeline over the one record: the entry is paired with the author's *)
(* note unless the player has set it, its associator accepts, its score is *)
(* 10 and its postRules decide.  `won` is whether it is the winner.         *)
selectDirection(s) ==
  IF ~s.present \/ s.setAuthorsNote THEN [state |-> s, won |-> FALSE]
  ELSE LET result == postRules([kind |-> "Direction", id |-> TheDirection], AuthorsNote,
                               <<>>, <<>>, EmptyAssociations, s.director, s.actionCount)
       IN [state |-> [s EXCEPT !.director = result.director], won |-> result.ok]

(* updateCaches: the entries are serialized into $$stateDataCache. *)
serializeEntries(s) ==
  [s EXCEPT !.cached = s.present,
            !.infoHash = IF s.present /\ s.hashing THEN hashText(s.text) ELSE NoHash]

(* loadUpMemory: the text of the winner of the author's note. *)
loadUpMemory(s, won) ==
  IF won /\ s.text # "" THEN [s EXCEPT !.authorsNote = s.text] ELSE s

(* One run of the modifier. *)
NoteTurn ==
  /\ call.fn = "authorsNote"
  /\ call.actionCount < NoteTurns
  /\ LET selected == selectDirection(restoreMissingDirection(checkForChanges(call)))
         done == loadUpMemory(serializeEntries(selected.state), selected.won)
     IN call' = [done EXCEPT !.actionCount = @ + 1, !.last = "turn"]
  /\ UNCHANGED <<turnVars, parser>>

(* The set-authors-note command. *)
SetAuthorsNote ==
  /\ call.fn = "authorsNote"
  /\ call.last # "command"
  /\ \E newNote \in PlayerNotes :
       call' = IF newNote = ""
                 THEN [call EXCEPT !.authorsNote = "", !.setAuthorsNote = FALSE,
                                   !.last = "command"]
                 ELSE [call EXCEPT !.authorsNote = newNote, !.setAuthorsNote = TRUE,
                                   !.last = "command"]
  /\ UNCHANGED <<turnVars, parser>>

(* The player rewrites the text of the record, or removes the record. *)
EditEntry ==
  /\ call.fn = "authorsNote"
  /\ call.present
  /\ call.last # "edit"
  /\ \/ \E text \in EntryTexts \ {call.text} :
          call' = [call EXCEPT !.text = text, !.last = "edit"]
     \/ call' = [call EXCEPT !.present = FALSE, !.last = "edit"]
  /\ UNCHANGED <<turnVars, parser>>

NextNote == NoteTurn \/ SetAuthorsNote \/ EditEntry

SpecNote == InitNote /\ [][NextNote]_vars

C32_NoteFollowsText ==
  [][(/\ call.fn = "authorsNote"
      /\ call'.last = "turn"
      /\ call.present
      /\ call.director.selection = TheDirection
      /\ call.infoHash # NoHash
      /\ call.text # ""
      /\ hashText(call.text) # call.infoHash
      /\ call.authorsNote # ""
      /\ hashText(call.authorsNote) = call.infoHash)
       => call'.authorsNote = call.text]_vars

----------------------------------------------------------------------------
(* The order of the relation checks of associateState.                      *)

(* The pairs associateState has taken from the generator so far. *)
handledItems ==
  SubSeq(helperItems(entries, stateAssociations), 1, cursor)

(* The pair associateState takes in its next step. *)
itemAtHand == helperItems(entries, stateAssociations)[cursor + 1]

(* Whether the relation check of `earlier` may run before `later` records  *)
(* its topics: `later` is at a smaller depth, or at the same depth and      *)
(* further on in sortedStateMatchers.                                       *)
mayPrecede(earlier, later) ==
  \/ earlier.source.depth > later.source.depth
  \/ /\ earlier.source.depth = later.source.depth
     /\ IndexOf(sortedStateMatchers, earlier.m) < IndexOf(sortedStateMatchers, later.m)

(* C33: when the relation check of an entry runs for the history depth d,  *)
(* the UsedTopicsMap holds every topic recorded this turn at a depth        *)
(* greater than d, and at d by the entries before it in the processing      *)
(* order: a step that records topics at a depth is the step of a history    *)
(* pair of that depth, and no check already run had to see these topics.    *)
C33_TopicsRecordedBeforeChecks ==
  [][(pc = "associateState" /\ cursor' = cursor + 1) =>
       \A d \in 0..(EntryCount - 1) :
         usedTopics'[d] # usedTopics[d] =>
           /\ isForHistory(itemAtHand.source)
           /\ itemAtHand.source.depth = d
           /\ \A j \in 1..cursor :
                isForHistory(handledItems[j].source) => mayPrecede(handledItems[j], itemAtHand)]_vars

(* A check at depth 0 has run after topics were recorded at depth 1 and at *)
(* depth 0 by an entry before it.                                           *)
C33_Witness ==
  /\ pc = "associateState"
  /\ cursor >= 2
  /\ isForHistory(handledItems[cursor].source)
  /\ handledItems[cursor].source.depth = 0
  /\ usedTopics[1] # {}
  /\ \E j \in 1..(cursor - 1) :
       /\ handledItems[j].source = H(0)
       /\ entries[handledItems[j].m].topics # {}
       /\ handledItems[j].m \in Range(stateAssociations[H(0)])
       /\ entries[handledItems[j].m].topics \subseteq usedTopics[0]

----------------------------------------------------------------------------
(* The lookups of associated ids in the entry table.                        *)

(* The ids that associationsHelper and makeRuleIterator look up in         *)
(* entriesMap with assertExists(MISSING_ENTRY, ...): the keys of the        *)
(* association of a source.                                                  *)
lookedUp(source) == Range(stateAssociations[source])

(* C34: throughout a turn every id in the association of a source is a key *)
(* of the entry table, so no lookup of an associated id misses.             *)
C34_AssociatedIdsAreInTable ==
  \A source \in DOMAIN stateAssociations : lookedUp(source) \subseteq Range(entriesMap)

(* In a turn after the first, an entry is associated when the rule         *)
(* iterators are about to look it up.                                       *)
C34_Witness ==
  /\ actionCount >= 1
  /\ pc = "applyPreRules"
  /\ \E source \in DOMAIN stateAssociations : lookedUp(source) # {}

----------------------------------------------------------------------------
(* The winners of the history sources on their own, over a working history *)
(* of StateDepths actions: three State entries and a Lore entry, which are  *)
(* candidates of any of the depths, in any order.                            *)

StateDepths == 4

StateRuleKinds == <<"State", "State", "State", "Lore">>

StateRuleEntries ==
  [i \in 1..Len(StateRuleKinds) |->
     NewEntry(i, Info(StateRuleKinds[i], {}, {Kw("include", "w")}, {}, {}))]

(* The contestants of a source as the roulette leaves them: up to two of   *)
(* the entries, none of them twice.                                         *)
Contestants ==
  {<<>>} \cup {<<a>> : a \in DOMAIN StateRuleKinds}
    \cup {pair \in (DOMAIN StateRuleKinds) \X (DOMAIN StateRuleKinds) : pair[1] # pair[2]}

(* rounds[d + 1] are the contestants of the history source at offset d.    *)
WinnerCalls ==
  [ fn : {"pickWinners"}, rounds : [1..StateDepths -> Contestants],
    done : {0}, usedEntries : {<<>>} ]

InitWinners ==
  /\ NoTurn
  /\ parser = NoParser
  /\ call \in WinnerCalls

(* The loop over the contestants of a source other than `implicit`, from   *)
(* the i-th on: the first contestant that is not yet used and that its      *)
(* post-rules let through is pushed on usedEntries, and the loop breaks.    *)
RECURSIVE winnerLoop(_, _, _, _)
winnerLoop(source, contestants, i, usedEntries) ==
  IF i > Len(contestants) THEN usedEntries
  ELSE IF contestants[i] \in usedEntryIds(usedEntries)
    THEN winnerLoop(source, contestants, i + 1, usedEntries)
  ELSE IF ~postRules(StateRuleEntries[contestants[i]], source, usedEntries, StateRuleEntries,
                     EmptyAssociations, [section |-> NoSection, selection |-> NoEntry], 0).ok
    THEN winnerLoop(source, contestants, i + 1, usedEntries)
  ELSE Append(usedEntries, <<contestants[i], source>>)

(* One iteration of the loop over iterReverse(winnersArr): the groups of   *)
(* the history come up from the latest action to the oldest.                *)
PickRound ==
  /\ call.fn = "pickWinners"
  /\ call.done < StateDepths
  /\ call' = [call EXCEPT
                !.done = @ + 1,
                !.usedEntries = winnerLoop(H(call.done), call.rounds[call.done + 1], 1, @)]
  /\ UNCHANGED <<turnVars, parser>>

SpecWinners == InitWinners /\ [][PickRound]_vars

selectedStates(usedEntries) ==
  {i \in 1..Len(usedEntries) : StateRuleEntries[usedEntries[i][1]].kind = "State"}

(* C35: no more than two State entries are selected as winners in a turn,  *)
(* however many history depths have State candidates.                       *)
C35_AtMostTwoStates ==
  call.fn = "pickWinners" => Cardinality(selectedStates(call.usedEntries)) <= 2

(* Every depth has been resolved, two State entries have won, and a depth  *)
(* whose contestants are State entries, one of them unused, has no winner.  *)
C35_Witness ==
  /\ call.fn = "pickWinners"
  /\ call.done = StateDepths
  /\ Cardinality(selectedStates(call.usedEntries)) = 2
  /\ \E d \in 1..StateDepths :
       /\ \A id \in Range(call.rounds[d]) : StateRuleEntries[id].kind = "State"
       /\ Range(call.rounds[d]) \ usedEntryIds(call.usedEntries) # {}
       /\ \A k \in 1..Len(call.usedEntries) : call.usedEntries[k][2] # H(d - 1)

----------------------------------------------------------------------------
(* The Player entries and the implicit source.                              *)

(* The Player entries of the entry table, which validation has passed. *)
validPlayers == {id \in Range(entriesMap) : entries[id].kind = "Player"}

(* The roulette of an unblocked turn of a single-player session is over. *)
singlePlayerTurnResolved == pc = "updateCaches" /\ ~env.multiplayer

(* C36 as stated: in a single-player session every Player entry that       *)
(* passed validation is a winner of the implicit source of every unblocked  *)
(* turn.                                                                     *)
C36_EveryPlayerWinsImplicit ==
  singlePlayerTurnResolved => validPlayers \subseteq Range(stateAssociations[Implicit])

(* C36, amended: in a single-player session every Player entry that passed *)
(* validation is associated with the implicit source when the roulette      *)
(* begins, and exactly one of them is a winner of the implicit source.      *)
C36_OnePlayerWinsImplicit ==
  /\ (pc = "applyPreRules" /\ ~env.multiplayer) =>
        validPlayers \subseteq Range(stateAssociations[Implicit])
  /\ (singlePlayerTurnResolved /\ validPlayers # {}) =>
        Cardinality(validPlayers \cap Range(stateAssociations[Implicit])) = 1

(* Two Player entries passed validation and one of them has won. *)
C36_Witness ==
  /\ singlePlayerTurnResolved
  /\ Cardinality(validPlayers) = 2
  /\ Cardinality(validPlayers \cap Range(stateAssociations[Implicit])) = 1

----------------------------------------------------------------------------
(* The matchers of its own that a recipient has after the modifier stage.  *)

(* The exclusive keywords and the negated relations the entry was authored *)
(* with.                                                                     *)
negativeKeywords(id) == {kw \in authored(id).keywords : isExclusiveKeyword(kw)}
negativeRelations(id) == {rel \in authored(id).relations : isNegatedRelation(rel)}

(* C37: a Lore entry that has copied the matchers of its donor in the      *)
(* modifier stage still has the exclusive keywords and the negated          *)
(* relations it was authored with.                                           *)
C37_KeepsNegativeMatchers ==
  afterModifiers =>
    \A b \in recipients :
      Cardinality(eligibleDonors(b)) = 1 =>
        /\ negativeKeywords(b) \subseteq entries[b].keywords
        /\ negativeRelations(b) \subseteq entries[b].relations

----------------------------------------------------------------------------
(* The turn over players and the lore their texts refer to: a player whose *)
(* text has the keyword of the lore, and one whose text has not.            *)

ReferenceEntries == 3

ReferenceCatalogue ==
  { Info("Player", {"t1"}, {}, {}, {"w"}),
    Info("Player", {"t2"}, {}, {}, {"t1"}),
    Info("Lore", {"t3"}, {Kw("include", "w")}, {}, {}) }

ReferenceScenarios == [1..ReferenceEntries -> ReferenceCatalogue]

InitReferences == InitOver(ReferenceScenarios)

SpecReferences == InitReferences /\ [][Next]_vars

(* The pairs of the implicitRef source that the roulette stage values: the *)
(* group of the source after the filter on the association of the matcher.  *)
valuedReferences ==
  SeqFilter(associatedItems(entries, stateAssociations),
            {item \in Range(associatedItems(entries, stateAssociations)) :
               item.source = ImplicitRef})

(* What the associator of the pair's entry answered for the pair's text in *)
(* associateState; the matchers of an entry are those the modifier stage    *)
(* left it with.                                                             *)
acceptedReference(item) ==
  associator(entries[item.m], item, entries, env, usedTopics, director.selection, FALSE).ok

(* C38: a pair of an entry and a referenced entry is valued for the        *)
(* implicitRef source, and enters the order of the source, only if the      *)
(* associator of the entry accepted that referenced entry.                  *)
C38_OnlyAcceptedReferences ==
  (pc = "superHappyRouletteTime" /\ cursor = 1) =>
    \A k \in 1..Len(valuedReferences) :
      LET item == valuedReferences[k] IN
      rouletteOf(<<item>>, entries) # <<>> => acceptedReference(item)

----------------------------------------------------------------------------
(* The plugin Events for Actions over a run of turns.  The game shows the  *)
(* whole story: history[i + 1] is the action at the index i, and the turn   *)
(* of an action is its index in the story.  The actions are not rewritten.  *)

MaxActions == 6
maximumLookBack == 30

ActionTexts == {"go", "look"}

StoryTurns == 0..(MaxActions - 1)

(* GameState.$$actionIdent is not set up; an index maps to no turn. *)
NoInputPhase == -1
NoTurnId == -1

(* The story is the prompt, and the player is to move.  `phase` is the     *)
(* phase that comes up next, `added` counts the events                       *)
(* events-for-actions.added by the turn they were emitted for.               *)
EventStates ==
  [ fn : {"eventsForActions"}, phase : {"input"},
    history : {<<prompt>> : prompt \in ActionTexts}, actionCount : {1},
    turnOfLastInputPhase : {NoInputPhase},
    cache : {[turn \in StoryTurns |-> NoHash]},
    added : {[turn \in StoryTurns |-> 0]} ]

InitEvents ==
  /\ NoTurn
  /\ parser = NoParser
  /\ call \in EventStates

turnHadInputPhase(s, phase) ==
  IF phase = "input" THEN TRUE
  ELSE IF s.turnOfLastInputPhase = NoInputPhase THEN FALSE
  ELSE s.turnOfLastInputPhase = s.actionCount

getOffset(s, phase) ==
  IF phase = "input" THEN 0
  ELSE IF ~turnHadInputPhase(s, phase) THEN 0
  ELSE 1

historyToTurn(s, phase, index) ==
  LET offsetCount == getOffset(s, phase) + s.actionCount
      viewOffset == offsetCount - Len(s.history)
      turnId == index + viewOffset
  IN IF index >= Len(s.history) THEN NoTurnId
     ELSE IF turnId < 0 THEN NoTurnId
     ELSE turnId

(* objectHash.sha1(entry) of the action at an index. *)
hashOfAction(s, index) == sha1(s.history[index + 1])

(* The input modifier of Action-Ident. *)
actionIdentInputModifier(s) == [s EXCEPT !.turnOfLastInputPhase = s.actionCount]

(* The input modifier of the plugin: an action of the look-back region     *)
(* whose turn has no hash in the cache is announced as added; the hashes    *)
(* of the turns after the last action are deleted.  The cache gets no hash. *)
inputModifier(s, phase) ==
  LET lookBack == IF maximumLookBack < Len(s.history) THEN maximumLookBack ELSE Len(s.history)
      region == (Len(s.history) - lookBack)..(Len(s.history) - 1)
      addedTurns == {historyToTurn(s, phase, index) : index \in
                       {i \in region : s.cache[historyToTurn(s, phase, i)] = NoHash}}
      currentTurn == historyToTurn(s, phase, Len(s.history) - 1)
  IN [s EXCEPT
        !.added = [turn \in StoryTurns |-> IF turn \in addedTurns THEN @[turn] + 1 ELSE @[turn]],
        !.cache = [turn \in StoryTurns |-> IF turn > currentTurn THEN NoHash ELSE @[turn]]]

(* The context modifier of the plugin: the full check when the turn had no *)
(* input phase; else the last action is announced and its hash is cached.   *)
contextModifier(s) ==
  LET lastIndex == Len(s.history) - 1
      lastTurn == historyToTurn(s, "context", lastIndex)
      currentHash == hashOfAction(s, lastIndex)
  IN IF ~turnHadInputPhase(s, "context") THEN inputModifier(s, "context")
     ELSE IF Len(s.history) = 0 THEN s
     ELSE IF currentHash = s.cache[lastTurn] THEN s
     ELSE [s EXCEPT !.added[lastTurn] = @ + 1, !.cache[lastTurn] = currentHash]

(* The player enters a text: the input modifiers run, and the game adds    *)
(* the text to the story.                                                    *)
InputPhase ==
  /\ call.fn = "eventsForActions"
  /\ call.phase = "input"
  /\ Len(call.history) + 2 <= MaxActions
  /\ \E text \in ActionTexts :
       call' = [inputModifier(actionIdentInputModifier(call), "input") EXCEPT
                  !.history = Append(@, text), !.phase = "context"]
  /\ UNCHANGED <<turnVars, parser>>

(* The context modifier runs, after an input phase or when the player has  *)
(* the story continued without a text, and the game adds the response to    *)
(* the story.                                                                *)
ContextPhase ==
  /\ call.fn = "eventsForActions"
  /\ Len(call.history) + 1 <= MaxActions
  /\ \E text \in ActionTexts :
       call' = [contextModifier(call) EXCEPT
                  !.history = Append(@, text), !.actionCount = Len(call.history) + 1,
                  !.phase = "input"]
  /\ UNCHANGED <<turnVars, parser>>

NextEvents == InputPhase \/ ContextPhase

SpecEvents == InitEvents /\ [][NextEvents]_vars

(* C39: over a run of turns in which no action is rewritten or removed,    *)
(* the event events-for-actions.added is emitted at most once for the       *)
(* action of a turn.                                                         *)
C39_AddedAtMostOnce ==
  call.fn = "eventsForActions" => \A turn \in StoryTurns : call.added[turn] <= 1

====
